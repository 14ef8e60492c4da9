-------------------------- MODULE AlgorithmProofs --------------------------
(***************************************************************************)
(* What the pure parts compute, for inputs of any size: the normalization  *)
(* and comparison of findings, the validators of a campaign, the places of *)
(* the hunks of a diff, and the reading of diffs.                          *)
(***************************************************************************)
EXTENDS MCAlgorithms, WellFoundedInduction, SequenceTheorems, FiniteSetTheorems, TLAPS

-----------------------------------------------------------------------------
(* Induction, from the least element of a set of numbers. *)

(* A set that holds zero and with a number the next one holds all of them. *)
LEMMA NumbersAreReached ==
    ASSUME NEW N, 0 \in N, \A n \in Nat : n \in N => n + 1 \in N
    PROVE  Nat \subseteq N
  <1>1. ASSUME NEW x \in Nat \ N, \A y \in Nat \ N : ~(y < x)
        PROVE  FALSE
    <2>1. x - 1 \in Nat /\ x - 1 < x
      BY <1>1
    <2>2. x - 1 \in N
      BY <1>1, <2>1
    <2> QED BY <2>1, <2>2
  <1>2. PICK R : IsWellFoundedOn(R, Nat) /\ \A y, x \in Nat : <<y, x>> \in R <=> y < x
    BY NatLessThanWellFounded DEF OpToRel
  <1>3. ASSUME NEW T, T \subseteq Nat, T # {}
        PROVE  \E x \in T : \A y \in T : <<y, x>> \notin R
    <2>1. IsWellFoundedOn(R, Nat)
      BY <1>2
    <2>2. T \subseteq Nat /\ T # {}
      BY <1>3
    <2> QED BY <2>1, <2>2, WFMin
  <1>4. SUFFICES ASSUME Nat \ N # {} PROVE FALSE
    OBVIOUS
  <1>5. \E x \in Nat \ N : \A y \in Nat \ N : <<y, x>> \notin R
    BY <1>3, <1>4, Zenon
  <1> QED BY <1>1, <1>2, <1>5

-----------------------------------------------------------------------------
(* Recursion. *)

(* A function that takes what it is given from values of lower rank: there *)
(* is one (the library has this only for an operator as a parameter).      *)
Descends(D, V, rank, m, G) ==
    /\ V # {} /\ m \in Nat /\ rank \in [D -> Nat] /\ G \in [D \X [D -> V] -> V]
    /\ \A d \in D : rank[d] < m
    /\ \A d \in D : \A f, g \in [D -> V] :
          (\A e \in D : rank[e] < rank[d] => f[e] = g[e]) => G[<<d, f>>] = G[<<d, g>>]

LEMMA RecursionExists ==
    ASSUME NEW D, NEW V, NEW rank, NEW m, NEW G, Descends(D, V, rank, m, G)
    PROVE  \E f \in [D -> V] : \A d \in D : f[d] = G[<<d, f>>]
  <1> USE DEF Descends
  <1> DEFINE Reaches(n) == \E f \in [D -> V] : \A d \in D : rank[d] < n => f[d] = G[<<d, f>>]
             N == {n \in Nat : Reaches(n)}
  <1>1. Reaches(0)
    <2>1. PICK v \in V : TRUE
      OBVIOUS
    <2>2. [d \in D |-> v] \in [D -> V]
      OBVIOUS
    <2>3. \A d \in D : ~(rank[d] < 0)
      OBVIOUS
    <2> QED BY <2>2, <2>3
  <1>2. ASSUME NEW n \in Nat, Reaches(n) PROVE Reaches(n + 1)
    <2>1. PICK f \in [D -> V] : \A d \in D : rank[d] < n => f[d] = G[<<d, f>>]
      BY <1>2
    <2> DEFINE g == [d \in D |-> G[<<d, f>>]]
    <2>2. g \in [D -> V]
      OBVIOUS
    <2>3. ASSUME NEW d \in D, rank[d] < n + 1 PROVE g[d] = G[<<d, g>>]
      <3>1. ASSUME NEW e \in D, rank[e] < rank[d] PROVE f[e] = g[e]
        <4>1. rank[e] < n
          BY <2>3, <3>1
        <4> QED BY <2>1, <4>1
      <3>2. g[d] = G[<<d, f>>]
        OBVIOUS
      <3> HIDE DEF g
      <3>3. G[<<d, f>>] = G[<<d, g>>]
        BY <2>2, <3>1
      <3> QED BY <3>2, <3>3
    <2> HIDE DEF g
    <2> QED BY <2>2, <2>3
  <1>3. Nat \subseteq N
    <2> HIDE DEF Reaches
    <2>1. 0 \in N /\ \A n \in Nat : n \in N => n + 1 \in N
      BY <1>1, <1>2
    <2> HIDE DEF N
    <2> QED BY <2>1, NumbersAreReached
  <1> QED BY <1>3

(* What holds of a value when it holds of those of lower rank, holds of all. *)
LEMMA RanksAreReached ==
    ASSUME NEW D, NEW rank \in [D -> Nat], NEW T,
           \A d \in D : (\A e \in D : rank[e] < rank[d] => e \in T) => d \in T
    PROVE  D \subseteq T
  <1> DEFINE N == {n \in Nat : \A d \in D : rank[d] < n => d \in T}
  <1>1. 0 \in N
    <2>1. \A d \in D : ~(rank[d] < 0)
      OBVIOUS
    <2> QED BY <2>1
  <1>2. ASSUME NEW n \in Nat, n \in N PROVE n + 1 \in N
    <2>1. ASSUME NEW d \in D, rank[d] < n + 1 PROVE d \in T
      <3>1. \A e \in D : rank[e] < rank[d] => rank[e] < n
        BY <2>1
      <3> QED BY <1>2, <3>1
    <2> QED BY <2>1
  <1>3. Nat \subseteq N
    <2> HIDE DEF N
    <2> QED BY <1>1, <1>2, NumbersAreReached
  <1>4. ASSUME NEW d \in D PROVE d \in T
    <2> DEFINE n == rank[d] + 1
    <2>1. n \in Nat /\ rank[d] < n
      OBVIOUS
    <2>2. n \in N
      <3> HIDE DEF N, n
      <3> QED BY <1>3, <2>1
    <2> HIDE DEF n
    <2> QED BY <2>1, <2>2
  <1> QED BY <1>4

-----------------------------------------------------------------------------
(* Sequences of sequences.  FlattenSeq is the last of the concatenations   *)
(* f, the k-th of them of the first k sequences.                           *)
Flat(f, seqs) == \A i \in 1..Len(seqs) : f[i] = IF i = 1 THEN seqs[1] ELSE f[i - 1] \o seqs[i]

(* There are such concatenations. *)
LEMMA FlatteningExists ==
    ASSUME NEW B, NEW seqs \in Seq(Seq(B)), seqs # <<>>
    PROVE  \E f \in [1..Len(seqs) -> Seq(B)] : Flat(f, seqs) /\ FlattenSeq(seqs) = f[Len(seqs)]
  <1> DEFINE D == 1..Len(seqs)
             V == Seq(B)
             rank == [i \in D |-> i]
             G == [z \in D \X [D -> V] |->
                     IF z[1] = 1 THEN seqs[z[1]] ELSE z[2][z[1] - 1] \o seqs[z[1]]]
  <1>1. G \in [D \X [D -> V] -> V]
    <2>1. ASSUME NEW i \in D, NEW f \in [D -> V]
          PROVE  (IF i = 1 THEN seqs[i] ELSE f[i - 1] \o seqs[i]) \in V
      <3>1. seqs[i] \in Seq(B) /\ (i # 1 => i - 1 \in D)
        OBVIOUS
      <3>2. i # 1 => f[i - 1] \in Seq(B)
        BY <3>1
      <3>3. i # 1 => f[i - 1] \o seqs[i] \in Seq(B)
        BY <3>1, <3>2, ConcatProperties
      <3> QED BY <3>1, <3>3
    <2> QED BY <2>1
  <1>2. \A d \in D : \A f, g \in [D -> V] :
          (\A e \in D : rank[e] < rank[d] => f[e] = g[e]) => G[<<d, f>>] = G[<<d, g>>]
    <2>1. ASSUME NEW d \in D, NEW f \in [D -> V], NEW g \in [D -> V],
                 \A e \in D : rank[e] < rank[d] => f[e] = g[e]
          PROVE  G[<<d, f>>] = G[<<d, g>>]
      <3>1. d # 1 => f[d - 1] = g[d - 1]
        BY <2>1
      <3> QED BY <3>1
    <2> HIDE DEF G, D, V, rank
    <2> QED BY <2>1
  <1>3. rank \in [D -> Nat] /\ V # {} /\ \A d \in D : rank[d] < Len(seqs) + 1
    <2>1. <<>> \in V
      OBVIOUS
    <2> QED BY <2>1
  <1>4. \A f \in [D -> V] : \A d \in D : G[<<d, f>>] = IF d = 1 THEN seqs[d] ELSE f[d - 1] \o seqs[d]
    OBVIOUS
  <1>5. \E f \in [D -> V] : \A d \in D : f[d] = G[<<d, f>>]
    <2> DEFINE m == Len(seqs) + 1
    <2>1. m \in Nat
      OBVIOUS
    <2>2. \A d \in D : rank[d] < m
      BY <1>3
    <2> HIDE DEF G, D, V, rank, m
    <2>3. Descends(D, V, rank, m, G)
      BY <1>1, <1>2, <1>3, <2>1, <2>2 DEF Descends
    <2> QED BY <2>3, RecursionExists
  <1>6. PICK f \in [D -> V] : \A d \in D : f[d] = IF d = 1 THEN seqs[d] ELSE f[d - 1] \o seqs[d]
    BY <1>4, <1>5
  <1> DEFINE Is(h) == h = [i \in 1..Len(seqs) |-> IF i = 1 THEN seqs[i] ELSE h[i - 1] \o seqs[i]]
             h == CHOOSE h : Is(h)
  <1>7. Is(f)
    BY <1>6
  <1>8. Is(h)
    <2> HIDE DEF Is
    <2> QED BY <1>7
  <1>9. FlattenSeq(seqs) = h[Len(seqs)]
    BY DEF FlattenSeq
  <1>10. D \subseteq {d \in D : f[d] = h[d]}
    <2> HIDE DEF h
    <2> DEFINE T == {d \in D : f[d] = h[d]}
    <2>1. ASSUME NEW d \in D, \A e \in D : rank[e] < rank[d] => e \in T
          PROVE  d \in T
      <3>1. d # 1 => d - 1 \in D /\ rank[d - 1] < rank[d]
        OBVIOUS
      <3>2. d # 1 => f[d - 1] = h[d - 1]
        BY <2>1, <3>1
      <3> QED BY <1>6, <1>8, <3>2, ZenonT(60)
    <2>2. rank \in [D -> Nat]
      OBVIOUS
    <2> HIDE DEF D, rank, T
    <2>3. D \subseteq T
      BY <2>1, <2>2, RanksAreReached
    <2> QED BY <2>3 DEF T
  <1>11. Flat(f, seqs) /\ FlattenSeq(seqs) = f[Len(seqs)]
    <2>1. Len(seqs) \in D
      OBVIOUS
    <2>2. Flat(f, seqs)
      <3> HIDE DEF h, G, Is
      <3> QED BY <1>6 DEF Flat
    <2> HIDE DEF h, V, G, rank, Is
    <2> QED BY <1>9, <1>10, <2>1, <2>2
  <1> HIDE DEF h
  <1> QED BY <1>11

(* The elements of two sequences, one after the other. *)
Joins(s, a, b) ==
    /\ Len(a) \in Nat /\ Len(b) \in Nat /\ Len(s) = Len(a) + Len(b)
    /\ \A x \in 1..Len(a) : s[x] = a[x]
    /\ \A x \in 1..Len(b) : s[Len(a) + x] = b[x]

(* It is what \o gives. *)
LEMMA ConcatenationJoins ==
    ASSUME NEW B, NEW a \in Seq(B), NEW b \in Seq(B)
    PROVE  a \o b \in Seq(B) /\ Joins(a \o b, a, b)
  <1>1. Len(a) \in Nat /\ Len(b) \in Nat
    OBVIOUS
  <1>2. /\ a \o b \in Seq(B) /\ Len(a \o b) = Len(a) + Len(b)
        /\ \A x \in 1..Len(a) + Len(b) : (a \o b)[x] = IF x <= Len(a) THEN a[x] ELSE b[x - Len(a)]
    BY ConcatProperties
  <1> DEFINE s == a \o b
  <1> HIDE DEF s
  <1>3. \A x \in 1..Len(a) : s[x] = a[x]
    BY <1>1, <1>2 DEF s
  <1>4. ASSUME NEW x \in 1..Len(b) PROVE s[Len(a) + x] = b[x]
    <2> DEFINE y == Len(a) + x
    <2>1. y \in 1..Len(a) + Len(b) /\ ~(y <= Len(a)) /\ y - Len(a) = x
      BY <1>1
    <2> HIDE DEF y
    <2>2. s[y] = b[x]
      BY <1>2, <2>1 DEF s
    <2> QED BY <2>2 DEF y
  <1> QED BY <1>1, <1>2, <1>3, <1>4 DEF s, Joins

(* The first elements of s are those of a. *)
Extends(s, a) ==
    Len(a) \in Nat /\ Len(a) <= Len(s) /\ \A x \in 1..Len(a) : s[x] = a[x]

(* They stay the first when more is appended. *)
LEMMA JoinedExtends ==
    ASSUME NEW s, NEW a, NEW b, NEW c, Joins(s, a, b), Extends(a, c)
    PROVE  Extends(s, c)
  <1> DEFINE k == Len(a)
             l == Len(b)
             m == Len(c)
             n == Len(s)
  <1>1. k \in Nat /\ l \in Nat /\ m \in Nat /\ n = k + l /\ m <= k
    BY DEF Joins, Extends
  <1>2. (\A x \in 1..k : s[x] = a[x]) /\ \A x \in 1..m : a[x] = c[x]
    BY DEF Joins, Extends
  <1> HIDE DEF k, l, m, n
  <1>3. m <= n /\ \A x \in 1..m : s[x] = c[x]
    BY <1>1, <1>2
  <1> QED BY <1>1, <1>3 DEF Extends, m, n

(* What is flattened first stays where it is. *)
LEMMA FlattenedIsPrefix ==
    ASSUME NEW B, NEW seqs \in Seq(Seq(B)), NEW f \in [1..Len(seqs) -> Seq(B)], Flat(f, seqs)
    PROVE  \A k \in 1..Len(seqs) : \A i \in 1..k : Extends(f[k], f[i])
  <1> DEFINE N == {n \in Nat : \A k \in 1..Len(seqs) : \A i \in 1..k : k <= n => Extends(f[k], f[i])}
  <1>1. 0 \in N
    OBVIOUS
  <1>2. ASSUME NEW n \in Nat, n \in N PROVE n + 1 \in N
    <2>1. ASSUME NEW k \in 1..Len(seqs), NEW i \in 1..k, k = n + 1, i # k PROVE Extends(f[k], f[i])
      <3>1. n \in 1..Len(seqs) /\ i \in 1..n /\ k # 1 /\ k - 1 = n
        BY <2>1
      <3>2. Extends(f[n], f[i])
        BY <1>2, <3>1
      <3>3. f[n] \in Seq(B) /\ seqs[k] \in Seq(B)
        <4>1. f[n] \in Seq(B)
          BY <3>1
        <4>2. seqs[k] \in Seq(B)
          OBVIOUS
        <4> QED BY <4>1, <4>2
      <3>4. f[k] = f[n] \o seqs[k]
        BY <3>1 DEF Flat
      <3>5. Joins(f[k], f[n], seqs[k])
        BY <3>3, <3>4, ConcatenationJoins
      <3> QED BY <3>2, <3>5, JoinedExtends
    <2>2. ASSUME NEW k \in 1..Len(seqs), NEW i \in 1..k, k <= n + 1 PROVE Extends(f[k], f[i])
      <3>1. i = k => Extends(f[k], f[i])
        <4>1. f[k] \in Seq(B)
          OBVIOUS
        <4> QED BY <4>1 DEF Extends
      <3>2. k # n + 1 => Extends(f[k], f[i])
        BY <1>2, <2>2
      <3> QED BY <2>1, <2>2, <3>1, <3>2
    <2> QED BY <2>2
  <1>3. Nat \subseteq N
    <2> HIDE DEF N
    <2> QED BY <1>1, <1>2, NumbersAreReached
  <1>4. ASSUME NEW k \in 1..Len(seqs), NEW i \in 1..k PROVE Extends(f[k], f[i])
    <2>1. k \in N
      <3> HIDE DEF N
      <3> QED BY <1>3
    <2> QED BY <2>1
  <1> QED BY <1>4

-----------------------------------------------------------------------------
(* Findings.  normalize_findings is a fold, which the library defines on   *)
(* all sets of indices: that there is such a function has to be shown      *)
(* before its equation can be used.                                        *)
Selects(f, fs, n) ==
    f = [s \in SUBSET (1..n) |->
           IF s = {} THEN <<>>
           ELSE LET x == CHOOSE x \in s : \A y \in s : x >= y
                IN  S!Selected(f[s \ {x}], fs[x])]

(* The greatest of the numbers to n + 1, if it is among them. *)
LEMMA LastIsGreatest ==
    ASSUME NEW n \in Nat, NEW s \in SUBSET (1..n + 1), n + 1 \in s
    PROVE  (CHOOSE x \in s : \A y \in s : x >= y) = n + 1
  <1>1. \A y \in s : n + 1 >= y
    OBVIOUS
  <1>2. \A x \in s : (\A y \in s : x >= y) => x = n + 1
    OBVIOUS
  <1> QED BY <1>1, <1>2

(* Every list of findings has one. *)
LEMMA SelectionsExist ==
    ASSUME NEW fs, NEW m \in Nat
    PROVE  \E f : Selects(f, fs, m)
  <1> DEFINE M == {n \in Nat : \E f : Selects(f, fs, n)}
  <1>1. 0 \in M
    <2> DEFINE f == [s \in SUBSET (1..0) |-> <<>>]
    <2>1. SUBSET (1..0) = {{}}
      OBVIOUS
    <2>2. Selects(f, fs, 0)
      BY <2>1 DEF Selects
    <2> QED BY <2>2
  <1>2. ASSUME NEW n \in Nat, n \in M PROVE n + 1 \in M
    <2>1. PICK f : Selects(f, fs, n)
      BY <1>2
    <2> DEFINE Top(s) == CHOOSE x \in s : \A y \in s : x >= y
               g == [s \in SUBSET (1..n + 1) |->
                       IF n + 1 \notin s THEN f[s]
                       ELSE S!Selected(f[s \ {n + 1}], fs[n + 1])]
    <2>2. ASSUME NEW s \in SUBSET (1..n + 1)
          PROVE  g[s] = IF s = {} THEN <<>> ELSE S!Selected(g[s \ {Top(s)}], fs[Top(s)])
      <3>1. CASE n + 1 \in s
        <4>1. Top(s) = n + 1
          BY <3>1, LastIsGreatest
        <4>2. g[s \ {n + 1}] = f[s \ {n + 1}]
          OBVIOUS
        <4> HIDE DEF Top
        <4> QED BY <3>1, <4>1, <4>2
      <3>2. CASE n + 1 \notin s
        <4>1. s \in SUBSET (1..n)
          BY <3>2
        <4>2. g[s] = f[s] /\ g[s \ {Top(s)}] = f[s \ {Top(s)}]
          BY <3>2
        <4>3. f[s] = IF s = {} THEN <<>> ELSE S!Selected(f[s \ {Top(s)}], fs[Top(s)])
          BY <2>1, <4>1 DEF Selects
        <4> HIDE DEF Top, g
        <4> QED BY <4>2, <4>3
      <3> QED BY <3>1, <3>2
    <2>3. g = [s \in SUBSET (1..n + 1) |-> g[s]]
      OBVIOUS
    <2> HIDE DEF g
    <2>4. Selects(g, fs, n + 1)
      BY <2>2, <2>3 DEF Selects
    <2> QED BY <2>4
  <1>3. Nat \subseteq M
    <2> HIDE DEF M
    <2> QED BY <1>1, <1>2, NumbersAreReached
  <1> QED BY <1>3

(* normalize_findings is what it selects from all of them. *)
LEMMA NormalizingSelects ==
    ASSUME NEW fs, NEW n \in Nat, DOMAIN fs = 1..n
    PROVE  \E f : Selects(f, fs, n) /\ S!normalize_findings(fs) = f[1..n]
  <1> DEFINE f == CHOOSE g : Selects(g, fs, n)
  <1>1. Selects(f, fs, n)
    BY SelectionsExist
  <1>2. S!normalize_findings(fs) = f[1..n]
    BY DEF S!normalize_findings, S!FoldLeft, S!MapThenFoldSet, S!Max, Selects
  <1> QED BY <1>1, <1>2

(* It goes through the findings in their order. *)
LEMMA NextSelection ==
    ASSUME NEW fs, NEW n \in Nat, NEW f, Selects(f, fs, n)
    PROVE  /\ f[1..0] = <<>>
           /\ \A k \in Nat : k + 1 \in 1..n => f[1..k + 1] = S!Selected(f[1..k], fs[k + 1])
  <1> DEFINE Top(s) == CHOOSE x \in s : \A y \in s : x >= y
  <1>1. \A s \in SUBSET (1..n) :
           f[s] = IF s = {} THEN <<>> ELSE S!Selected(f[s \ {Top(s)}], fs[Top(s)])
    BY DEF Selects
  <1>2. f[1..0] = <<>>
    <2>1. 1..0 = {} /\ {} \in SUBSET (1..n)
      OBVIOUS
    <2> HIDE DEF Top
    <2> QED BY <1>1, <2>1
  <1>3. ASSUME NEW k \in Nat, k + 1 \in 1..n
        PROVE  f[1..k + 1] = S!Selected(f[1..k], fs[k + 1])
    <2>1. Top(1..k + 1) = k + 1
      <3>1. k + 1 \in 1..k + 1
        OBVIOUS
      <3> QED BY <3>1, LastIsGreatest
    <2>2. 1..k + 1 \in SUBSET (1..n) /\ 1..k + 1 # {} /\ (1..k + 1) \ {k + 1} = 1..k
      BY <1>3
    <2> HIDE DEF Top
    <2> QED BY <1>1, <2>1, <2>2
  <1> QED BY <1>2, <1>3

-----------------------------------------------------------------------------
(* The reports of a tool: any number of them, with any identities. *)
IsReport(f) == f.rank \in Int /\ f.line \in 0..LastLine /\ f.message \in Int

AreReports(fs) ==
    Len(fs) \in Nat /\ DOMAIN fs = 1..Len(fs) /\ \A k \in DOMAIN fs : IsReport(fs[k])

(* Of the first n findings, one of each identity is kept, and none of the  *)
(* others is preferred to it.                                              *)
KeptOf(kept, fs, n) ==
    /\ DOMAIN kept = {fs[j].id : j \in 1..n}
    /\ \A id \in DOMAIN kept : \E j \in 1..n : fs[j].id = id /\ kept[id] = fs[j]
    /\ \A j \in 1..n : ~S!Preferred(fs[j], kept[fs[j].id])

(* A report without a line comes last. *)
LineOf(f) == IF f.line = 0 THEN LastLine + 1 ELSE f.line

(* The preference is a linear order. *)
LEMMA PreferencesCompare ==
    ASSUME NEW f, IsReport(f), NEW g, IsReport(g), NEW h, IsReport(h)
    PROVE  /\ ~S!Preferred(f, f)
           /\ S!Preferred(h, g) /\ ~S!Preferred(f, g) => ~S!Preferred(f, h)
           /\ ~S!Preferred(f, g) => \/ f.rank < g.rank
                                    \/ f.rank = g.rank /\ LineOf(f) >= LineOf(g)
  <1>1. \A r : IsReport(r) => LineOf(r) \in Int /\ S!LinePreference(r) = -LineOf(r)
    BY BoundsAreNumbers DEF IsReport, LineOf, S!LinePreference
  <1>2. \A r : IsReport(r) => r.rank \in Int /\ r.message \in Int
    BY DEF IsReport
  <1> QED BY <1>1, <1>2 DEF S!Preferred

(* What is kept after one more. *)
LEMMA NextKept ==
    ASSUME NEW fs, NEW n \in Nat, \A j \in 1..n + 1 : IsReport(fs[j]), NEW kept, KeptOf(kept, fs, n)
    PROVE  KeptOf(S!Selected(kept, fs[n + 1]), fs, n + 1)
  <1> DEFINE f == fs[n + 1]
             next == S!Selected(kept, f)
  <1>0. \A j \in 1..n + 1 : j \in 1..n \/ j = n + 1
    OBVIOUS
  <1>1. CASE f.id \notin DOMAIN kept \/ S!Preferred(f, kept[f.id])
    <2>1. next = [id \in DOMAIN kept \cup {f.id} |-> IF id = f.id THEN f ELSE kept[id]]
      BY <1>1 DEF S!Selected, S!Selecting
    <2>2. DOMAIN next = {fs[j].id : j \in 1..n + 1}
      BY <1>0, <2>1 DEF KeptOf
    <2>3. ASSUME NEW id \in DOMAIN next
          PROVE  \E j \in 1..n + 1 : fs[j].id = id /\ next[id] = fs[j]
      <3>1. CASE id = f.id
        BY <2>1, <3>1
      <3>2. CASE id # f.id
        <4>1. id \in DOMAIN kept /\ next[id] = kept[id]
          BY <2>1, <2>3, <3>2
        <4> QED BY <4>1 DEF KeptOf
      <3> QED BY <3>1, <3>2
    <2>4. ASSUME NEW j \in 1..n + 1
          PROVE  ~S!Preferred(fs[j], next[fs[j].id])
      <3>1. CASE fs[j].id # f.id
        <4>1. j \in 1..n /\ fs[j].id \in DOMAIN kept
          BY <1>0, <3>1 DEF KeptOf
        <4>2. next[fs[j].id] = kept[fs[j].id]
          BY <2>1, <3>1, <4>1
        <4> QED BY <4>1, <4>2 DEF KeptOf
      <3>2. CASE fs[j].id = f.id /\ j = n + 1
        <4>1. next[fs[j].id] = f /\ fs[j] = f
          BY <2>1, <3>2
        <4> HIDE DEF next
        <4> QED BY <4>1, PreferencesCompare
      <3>3. CASE fs[j].id = f.id /\ j \in 1..n
        <4>1. f.id \in DOMAIN kept /\ ~S!Preferred(fs[j], kept[f.id])
          BY <3>3 DEF KeptOf
        <4>2. S!Preferred(f, kept[f.id])
          BY <1>1, <4>1
        <4>3. PICK i \in 1..n : kept[f.id] = fs[i]
          BY <4>1 DEF KeptOf
        <4>4. next[fs[j].id] = f
          BY <2>1, <3>3
        <4>5. IsReport(f) /\ IsReport(fs[i]) /\ IsReport(fs[j])
          OBVIOUS
        <4> HIDE DEF next, f
        <4> QED BY <4>1, <4>2, <4>3, <4>4, <4>5, PreferencesCompare
      <3> QED BY <1>0, <3>1, <3>2, <3>3
    <2>5. KeptOf(next, fs, n + 1)
      <3> HIDE DEF next
      <3> QED BY <2>2, <2>3, <2>4 DEF KeptOf
    <2> QED BY <2>5
  <1>2. CASE f.id \in DOMAIN kept /\ ~S!Preferred(f, kept[f.id])
    <2>1. next = kept
      BY <1>2 DEF S!Selected
    <2>2. DOMAIN kept = {fs[j].id : j \in 1..n + 1}
      BY <1>0, <1>2 DEF KeptOf
    <2>3. \A id \in DOMAIN kept : \E j \in 1..n + 1 : fs[j].id = id /\ kept[id] = fs[j]
      BY DEF KeptOf
    <2>4. \A j \in 1..n + 1 : ~S!Preferred(fs[j], kept[fs[j].id])
      BY <1>0, <1>2 DEF KeptOf
    <2> QED BY <2>1, <2>2, <2>3, <2>4, SMTT(60) DEF KeptOf
  <1> QED BY <1>1, <1>2

(* What normalize_findings keeps. *)
LEMMA NormalizedIsKept ==
    ASSUME NEW fs, AreReports(fs)
    PROVE  KeptOf(S!normalize_findings(fs), fs, Len(fs))
  <1> DEFINE n == Len(fs)
  <1>0. n \in Nat /\ DOMAIN fs = 1..n /\ \A j \in 1..n : IsReport(fs[j])
    BY DEF AreReports
  <1> HIDE DEF n
  <1>1. PICK f : Selects(f, fs, n) /\ S!normalize_findings(fs) = f[1..n]
    BY <1>0, NormalizingSelects
  <1> DEFINE M == {k \in Nat : k <= n => KeptOf(f[1..k], fs, k)}
  <1>2. 0 \in M
    <2>1. f[1..0] = <<>> /\ 1..0 = {}
      BY <1>0, <1>1, NextSelection
    <2> QED BY <2>1 DEF KeptOf
  <1>3. ASSUME NEW k \in Nat, k \in M PROVE k + 1 \in M
    <2>1. SUFFICES ASSUME k + 1 <= n PROVE KeptOf(f[1..k + 1], fs, k + 1)
      OBVIOUS
    <2>2. k <= n /\ k + 1 \in 1..n /\ 1..k + 1 \subseteq 1..n
      BY <1>0, <2>1
    <2>3. f[1..k + 1] = S!Selected(f[1..k], fs[k + 1])
      BY <1>0, <1>1, <2>2, NextSelection
    <2>4. \A j \in 1..k + 1 : IsReport(fs[j])
      BY <1>0, <2>2
    <2> QED BY <1>3, <2>2, <2>3, <2>4, NextKept
  <1>4. n \in M
    <2> HIDE DEF M
    <2> QED BY <1>0, <1>2, <1>3, NumbersAreReached
  <1> QED BY <1>0, <1>1, <1>4 DEF n

(* One finding of each identity is kept, and it is no better than any      *)
(* other of it and no later than those as bad: in any list of findings.    *)
THEOREM FindingsAreNormalised ==
    ASSUME input.of = "normalize" => AreReports(input.findings)
    PROVE  NormalisationKeepsTheWorst
  <1> SUFFICES ASSUME input.of = "normalize" PROVE NormalisationKeepsTheWorst
    BY DEF NormalisationKeepsTheWorst
  <1> DEFINE fs == input.findings
             kept == S!normalize_findings(fs)
  <1>1. /\ AreReports(fs) /\ KeptOf(kept, fs, Len(fs))
        /\ DOMAIN fs = 1..Len(fs) /\ \A k \in DOMAIN fs : IsReport(fs[k])
    BY NormalizedIsKept DEF AreReports
  <1> HIDE DEF kept, fs
  <1>2. DOMAIN kept = Ids(fs)
    BY <1>1 DEF KeptOf, Ids
  <1>3. ASSUME NEW id \in DOMAIN kept
        PROVE  /\ kept[id] \in Of(fs, id)
               /\ \A f \in Of(fs, id) :
                     \/ f.rank < kept[id].rank
                     \/ f.rank = kept[id].rank /\ LineOf(f) >= LineOf(kept[id])
    <2>1. PICK j \in 1..Len(fs) : fs[j].id = id /\ kept[id] = fs[j]
      BY <1>1 DEF KeptOf
    <2>2. ASSUME NEW f \in Of(fs, id)
          PROVE  \/ f.rank < kept[id].rank
                 \/ f.rank = kept[id].rank /\ LineOf(f) >= LineOf(kept[id])
      <3>1. PICK k \in 1..Len(fs) : f = fs[k] /\ fs[k].id = id
        BY <1>1 DEF Of
      <3>2. ~S!Preferred(f, kept[id])
        BY <1>1, <3>1 DEF KeptOf
      <3>3. IsReport(f) /\ IsReport(kept[id])
        BY <1>1, <2>1, <3>1
      <3> QED BY <3>2, <3>3, PreferencesCompare
    <2>3. kept[id] \in Of(fs, id)
      BY <1>1, <2>1 DEF Of
    <2> QED BY <2>2, <2>3
  <1> QED BY <1>2, <1>3 DEF NormalisationKeepsTheWorst, LineOf, fs, kept

(* There is one for each identity. *)
LEMMA KeptAreAll ==
    ASSUME NEW fs, AreReports(fs)
    PROVE  DOMAIN S!normalize_findings(fs) = Ids(fs)
  <1> DEFINE kept == S!normalize_findings(fs)
  <1>1. KeptOf(kept, fs, Len(fs)) /\ DOMAIN fs = 1..Len(fs)
    BY NormalizedIsKept DEF AreReports
  <1> HIDE DEF kept
  <1>2. DOMAIN kept = Ids(fs)
    BY <1>1 DEF KeptOf, Ids
  <1> QED BY <1>2 DEF kept

(* The rank of a finding that is kept is the worst that was reported. *)
LEMMA KeptIsWorst ==
    ASSUME NEW fs, AreReports(fs), NEW id \in Ids(fs)
    PROVE  S!normalize_findings(fs)[id].rank = Worst(fs, id)
  <1> DEFINE kept == S!normalize_findings(fs)
             ranks == {f.rank : f \in Of(fs, id)}
  <1>1. /\ KeptOf(kept, fs, Len(fs))
        /\ DOMAIN fs = 1..Len(fs) /\ \A k \in DOMAIN fs : IsReport(fs[k])
    BY NormalizedIsKept DEF AreReports
  <1> HIDE DEF kept
  <1>2. PICK j \in 1..Len(fs) : fs[j].id = id /\ kept[id] = fs[j]
    BY <1>1 DEF KeptOf, Ids
  <1>3. kept[id].rank \in ranks
    BY <1>1, <1>2 DEF Of
  <1>4. ASSUME NEW q \in ranks PROVE q \in Int /\ kept[id].rank \in Int /\ q <= kept[id].rank
    <2>1. PICK k \in 1..Len(fs) : q = fs[k].rank /\ fs[k].id = id
      BY <1>1 DEF Of
    <2>2. ~S!Preferred(fs[k], kept[id])
      BY <1>1, <2>1 DEF KeptOf
    <2>3. IsReport(fs[k]) /\ IsReport(kept[id])
      BY <1>1, <1>2, <2>1
    <2>4. fs[k].rank <= kept[id].rank
      BY <2>2, <2>3, PreferencesCompare DEF IsReport
    <2> QED BY <2>1, <2>3, <2>4 DEF IsReport
  <1> HIDE DEF ranks
  <1>5. \A r \in ranks : (\A q \in ranks : q <= r) => r = kept[id].rank
    BY <1>3, <1>4
  <1>6. (CHOOSE r \in ranks : \A q \in ranks : q <= r) = kept[id].rank
    BY <1>3, <1>4, <1>5
  <1> QED BY <1>6 DEF Worst, ranks, kept

(* A scan fails for exactly the findings that are new or worse, of those   *)
(* at or above the threshold, however the two tools repeat themselves.     *)
THEOREM FindingsAreCompared ==
    ASSUME input.of = "compare" => AreReports(input.old) /\ AreReports(input.new)
    PROVE  ComparisonMissesNothing
  <1> SUFFICES ASSUME input.of = "compare" PROVE ComparisonMissesNothing
    BY DEF ComparisonMissesNothing
  <1> DEFINE old == S!normalize_findings(input.old)
             new == S!normalize_findings(input.new)
             failing == S!compare_findings(old, new, input.threshold)
             wanted == {id \in Ids(input.new) :
                          /\ Worst(input.new, id) >= input.threshold
                          /\ id \in Ids(input.old) => Worst(input.old, id) < Worst(input.new, id)}
  <1>1. DOMAIN old = Ids(input.old) /\ DOMAIN new = Ids(input.new)
    BY KeptAreAll
  <1>2. /\ \A id \in DOMAIN old : old[id].rank = Worst(input.old, id)
        /\ \A id \in DOMAIN new : new[id].rank = Worst(input.new, id)
    BY <1>1, KeptIsWorst
  <1> HIDE DEF old, new
  <1>3. ASSUME NEW id
        PROVE  id \in failing <=> /\ id \in DOMAIN new /\ new[id].rank >= input.threshold
                                  /\ id \in DOMAIN old => new[id].rank > old[id].rank
    BY DEF S!compare_findings, S!Introduced, S!Increased
  <1>4. \A id \in DOMAIN old \cap DOMAIN new : new[id].rank > old[id].rank <=> old[id].rank < new[id].rank
    OBVIOUS
  <1>5. ASSUME NEW id PROVE id \in failing <=> id \in wanted
    <2>1. id \in wanted <=> /\ id \in DOMAIN new /\ new[id].rank >= input.threshold
                            /\ id \in DOMAIN old => old[id].rank < new[id].rank
      BY <1>1, <1>2
    <2> HIDE DEF failing, wanted
    <2> QED BY <1>3, <1>4, <2>1
  <1>6. failing = wanted
    <2>1. failing \subseteq wanted /\ wanted \subseteq failing
      <3> HIDE DEF failing, wanted
      <3> QED BY <1>5
    <2> HIDE DEF failing, wanted
    <2> QED BY <2>1
  <1> QED BY <1>6 DEF ComparisonMissesNothing, old, new

-----------------------------------------------------------------------------
(* Campaigns                                                               *)

IsList(s) == s \in Seq(C!Values(s))

\* What YAML and the field types give: every list is a list.
HasLists(c) ==
    /\ IsList(c.units) /\ IsList(c.order) /\ IsList(c.shared) /\ IsList(c.scans)
    /\ IsList(c.severities)
    /\ \A i \in DOMAIN c.units :
          IsList(c.units[i].vulns) /\ IsList(c.units[i].patches) /\ IsList(c.units[i].regs)

(* A list without duplicates has as many elements as values. *)
LEMMA DistinctValues ==
  ASSUME NEW n \in Nat, NEW T, NEW f \in [1..n -> T],
         T = {f[i] : i \in 1..n}, \A i, j \in 1..n : f[i] = f[j] => i = j
  PROVE  Cardinality(T) = n
<1>1. f \in Bijection(1..n, T)
  BY DEF Bijection, Injection, IsInjective, Surjection
<1>2. IsFiniteSet(1..n) /\ Cardinality(1..n) = n
  BY FS_Interval
<1>3. ExistsBijection(1..n, T)
  BY <1>1 DEF ExistsBijection
<1>4. QED
  BY <1>2, <1>3, FS_Bijection

(* An accepted campaign is one that the orchestrator can go through        *)
(* (models.py: validate_campaign_relationships and the validators of the   *)
(* parts).                                                                 *)
THEOREM AcceptedCampaignsAreRunnable ==
  ASSUME NEW c, HasLists(c), C!Accepted(c)
  PROVE  C!IsRunnable(c)
<1> USE DEF HasLists, IsList
<1>1. Len(c.order) = Len(c.units)
  <2> DEFINE n == Len(c.units)
             m == Len(c.order)
             id == [i \in 1..n |-> C!UnitId(c, i)]
  <2>1. n \in Nat /\ DOMAIN c.units = 1..n /\ m \in Nat /\ DOMAIN c.order = 1..m
    OBVIOUS
  <2>2. Cardinality(C!UnitIds(c)) = n
    <3>1. id \in [1..n -> C!UnitIds(c)] /\ C!UnitIds(c) = {id[i] : i \in 1..n}
      BY <2>1 DEF C!UnitIds
    <3>2. \A i, j \in 1..n : id[i] = id[j] => i = j
      BY <2>1 DEF C!Accepted, C!IdsAreUnique, C!Unique
    <3> HIDE DEF id
    <3>3. QED
      BY <2>1, <3>1, <3>2, DistinctValues
  <2>3. Cardinality(C!Values(c.order)) = m
    <3>1. c.order \in [1..m -> C!Values(c.order)] /\ C!Values(c.order) = {c.order[i] : i \in 1..m}
      BY <2>1 DEF C!Values
    <3>2. \A i, j \in 1..m : c.order[i] = c.order[j] => i = j
      BY <2>1 DEF C!Accepted, C!OrderIsValid, C!AllDifferent, C!Unique
    <3>3. QED
      BY <2>1, <3>1, <3>2, DistinctValues
  <2>4. QED
    BY <2>2, <2>3 DEF C!Accepted, C!OrderIsValid
<1>2. ASSUME NEW i \in DOMAIN c.units
      PROVE  /\ \E k \in DOMAIN c.order : c.order[k] = C!UnitId(c, i)
             /\ Len(c.units[i].vulns) > 0 /\ Len(c.units[i].patches) > 0
  <2>1. C!UnitId(c, i) \in C!Values(c.order)
    BY DEF C!Accepted, C!OrderIsValid, C!UnitIds
  <2>2. C!UnitIsValid(c.units[i])
    BY DEF C!Accepted
  <2>3. \E k \in DOMAIN c.order : c.order[k] = C!UnitId(c, i)
    BY <2>1 DEF C!Values
  <2>4. Len(c.units[i].vulns) > 0
    BY <2>2 DEF C!UnitIsValid
  <2>5. Len(c.units[i].patches) > 0
    BY <2>2 DEF C!UnitIsValid
  <2>6. QED
    BY <2>3, <2>4, <2>5
<1>3. Len(c.shared) > 0 /\ Len(c.scans) > 0
  BY DEF C!Accepted, C!CommandsAreValid
<1>4. \E rank \in DOMAIN c.severities :
        \A other \in DOMAIN c.severities : c.severities[other] = c.threshold <=> other = rank
  BY DEF C!Accepted, C!ScanPolicyIsValid, C!AllDifferent, C!Unique, C!Values
<1>5. QED
  BY <1>1, <1>2, <1>3, <1>4 DEF C!IsRunnable, C!Accepted

(* Every command of an accepted campaign has the evidence to itself that   *)
(* it declares (verify._evidence_declarations).                            *)
THEOREM EvidenceStaysApart ==
  ASSUME NEW c, C!Accepted(c)
  PROVE  C!KeepsEvidenceApart(c)
<1>1. ASSUME NEW p \in C!DeclarationPlaces(c), NEW q \in C!DeclarationPlaces(c),
             C!Key(c, p) = C!Key(c, q)
      PROVE  p = q
  <2>1. \A r \in C!DeclarationPlaces(c) : r \in C!UnitPlaces(c, "vulns") <=> r.list = "vulns"
    BY DEF C!DeclarationPlaces, C!CommandPlaces, C!OwnPlaces, C!UnitPlaces, C!Place
  <2>2. p.list = q.list /\ C!IdAt(c, p) = C!IdAt(c, q)
    BY <1>1 DEF C!Key
  <2>3. CASE p.list = "vulns"
    BY <2>1, <2>2, <2>3 DEF C!Accepted, C!IdsAreUnique, C!Unique
  <2>4. CASE p.list # "vulns"
    BY <2>1, <2>2, <2>4 DEF C!Accepted, C!IdsAreUnique, C!Unique, C!DeclarationPlaces
  <2>5. QED
    BY <2>3, <2>4
<1>2. QED
  BY <1>1 DEF C!KeepsEvidenceApart, C!Declared

(* What the validators accept can be run: the property of the runs, for    *)
(* every campaign.                                                         *)
THEOREM AcceptedInputsAreRunnable ==
    ASSUME input.of = "campaign" => HasLists(input.campaign)
    PROVE  AcceptedIsRunnable
  BY AcceptedCampaignsAreRunnable DEF AcceptedIsRunnable

(* No two commands of an accepted campaign share a declaration: the        *)
(* property of the runs, for every campaign.                               *)
THEOREM AcceptedInputsAreApart == EvidenceIsKeptApart
  BY EvidenceStaysApart DEF EvidenceIsKeptApart

-----------------------------------------------------------------------------
(* Hunks.  A fold over two hunks is two steps. *)
LEMMA TwoHunksAreLocated ==
    ASSUME NEW lines, NEW h1, NEW h2
    PROVE  H!locate_hunks(lines, <<h1, h2>>)
             = H!Locate(H!Locate([ok |-> TRUE, lines |-> lines, offset |-> 0, places |-> <<>>], h1), h2)
  <1> DEFINE start == [ok |-> TRUE, lines |-> lines, offset |-> 0, places |-> <<>>]
             hunks == <<h1, h2>>
             Top(s) == CHOOSE x \in s : \A y \in s : x >= y
             Follows(f) == f = [s \in SUBSET (1..2) |->
                                  IF s = {} THEN start
                                  ELSE LET x == CHOOSE x \in s : \A y \in s : x >= y
                                       IN  H!Locate(f[s \ {x}], hunks[x])]
             one == H!Locate(start, h1)
             two == H!Locate(one, h2)
             g == [s \in SUBSET (1..2) |->
                     IF 1 \in s THEN IF 2 \in s THEN two ELSE one
                     ELSE IF 2 \in s THEN H!Locate(start, h2) ELSE start]
  <1>1. DOMAIN hunks = 1..2 /\ hunks[1] = h1 /\ hunks[2] = h2 /\ 1..2 = {1, 2}
    OBVIOUS
  <1>2. Top({1}) = 1 /\ Top({2}) = 2 /\ Top({1, 2}) = 2
    OBVIOUS
  <1>3. {1, 2} \ {2} = {1} /\ {1} \ {1} = {} /\ {2} \ {2} = {}
    OBVIOUS
  <1>4. SUBSET (1..2) = {{}, {1}, {2}, {1, 2}}
    BY <1>1
  <1>5. g[{}] = start /\ g[{1}] = one /\ g[{2}] = H!Locate(start, h2) /\ g[{1, 2}] = two
    BY <1>4
  <1> HIDE DEF hunks, start
  <1>6. Follows(g)
    <2>1. \A s \in SUBSET (1..2) :
             g[s] = IF s = {} THEN start ELSE H!Locate(g[s \ {Top(s)}], hunks[Top(s)])
      <3> HIDE DEF g, Top, Follows
      <3>1. SUFFICES ASSUME NEW s \in {{}, {1}, {2}, {1, 2}}
                     PROVE  g[s] = IF s = {} THEN start ELSE H!Locate(g[s \ {Top(s)}], hunks[Top(s)])
        BY <1>4
      <3>2. CASE s = {}
        BY <1>5, <3>2
      <3>3. CASE s = {1}
        BY <1>1, <1>2, <1>3, <1>5, <3>3
      <3>4. CASE s = {2}
        BY <1>1, <1>2, <1>3, <1>5, <3>4
      <3>5. CASE s = {1, 2}
        BY <1>1, <1>2, <1>3, <1>5, <3>5
      <3> QED BY <3>1, <3>2, <3>3, <3>4, <3>5
    <2>2. g = [s \in SUBSET (1..2) |-> g[s]]
      OBVIOUS
    <2> HIDE DEF g
    <2> QED BY <2>1, <2>2
  <1> DEFINE f == CHOOSE f : Follows(f)
  <1>7. Follows(f)
    <2> HIDE DEF g, Follows
    <2> QED BY <1>6
  <1>8. f[1..2] = two
    <2>1. \A s \in SUBSET (1..2) :
             f[s] = IF s = {} THEN start ELSE H!Locate(f[s \ {Top(s)}], hunks[Top(s)])
      <3> HIDE DEF f
      <3> QED BY <1>7
    <2> HIDE DEF f, Top
    <2>2. f[{}] = start
      BY <1>4, <2>1
    <2>3. f[{1}] = one
      BY <1>1, <1>2, <1>3, <1>4, <2>1, <2>2, ZenonT(60)
    <2>4. f[{1, 2}] = H!Locate(f[{1, 2} \ {Top({1, 2})}], hunks[Top({1, 2})])
      BY <1>4, <2>1
    <2> QED BY <1>1, <1>2, <1>3, <2>3, <2>4
  <1>9. H!locate_hunks(lines, hunks) = f[1..2]
    BY <1>1 DEF H!locate_hunks, H!FoldLeft, H!MapThenFoldSet, H!Max, start
  <1> QED BY <1>8, <1>9 DEF hunks, start

(* The smaller of two numbers. *)
LEMMA SmallerOfTwo ==
    ASSUME NEW a \in Int, NEW b \in Int, a <= b
    PROVE  H!Min({a, b}) = a
  <1>1. \A x \in {a, b} : (\A y \in {a, b} : x =< y) => x = a
    OBVIOUS
  <1>2. a \in {a, b} /\ \A y \in {a, b} : a =< y
    OBVIOUS
  <1> QED BY <1>1, <1>2 DEF H!Min

(* The file is o between p and q, texts whose lines are of L. *)
InMiddle(L, file, p, o, q) ==
    p \in Seq(L) /\ o \in Seq(L) /\ q \in Seq(L) /\ file = (p \o o) \o q

(* What is cut out of a file in the middle. *)
LEMMA MiddleIsSliced ==
    ASSUME NEW L, NEW file, NEW p, NEW o, NEW q, InMiddle(L, file, p, o, q), o # <<>>
    PROVE  H!Slice(file, Len(p) + 1, Len(o)) = o
  <1>0. p \in Seq(L) /\ o \in Seq(L) /\ q \in Seq(L) /\ file = (p \o o) \o q
    BY DEF InMiddle
  <1> DEFINE cut == SubSeq(file, Len(p) + 1, Len(p) + Len(o))
  <1>1. /\ Len(p) \in Nat /\ Len(o) \in Nat \ {0} /\ Len(q) \in Nat
        /\ file \in Seq(L) /\ Len(file) = Len(p) + Len(o) + Len(q)
        /\ \A i \in 1..Len(o) : file[Len(p) + i] = o[i] /\ o[i] \in L
    BY <1>0
  <1>2. H!Slice(file, Len(p) + 1, Len(o)) = cut
    <2>1. Len(p) + 1 + Len(o) - 1 = Len(p) + Len(o) /\ Len(p) + Len(o) <= Len(file)
      BY <1>1
    <2>2. H!Min({Len(p) + Len(o), Len(file)}) = Len(p) + Len(o)
      BY <1>1, <2>1, SmallerOfTwo
    <2> QED BY <2>1, <2>2 DEF H!Slice
  <1>3. /\ cut \in Seq(L) /\ Len(cut) = Len(o)
        /\ \A i \in 1..Len(o) : cut[i] = o[i]
    <2>1. \A i \in Len(p) + 1..Len(p) + Len(o) : file[i] \in L
      BY <1>1
    <2>2. /\ cut \in Seq(L) /\ Len(cut) = Len(o)
          /\ \A i \in 1..(Len(p) + Len(o)) - (Len(p) + 1) + 1 : cut[i] = file[(Len(p) + 1) + i - 1]
      <3>1. Len(p) + 1 \in Int /\ Len(p) + Len(o) \in Int
        BY <1>1
      <3>2. /\ cut \in Seq(L)
            /\ Len(cut) = IF Len(p) + 1 <= Len(p) + Len(o) THEN (Len(p) + Len(o)) - (Len(p) + 1) + 1 ELSE 0
            /\ \A i \in 1..(Len(p) + Len(o)) - (Len(p) + 1) + 1 : cut[i] = file[(Len(p) + 1) + i - 1]
        BY <2>1, <3>1, SubSeqProperties
      <3> HIDE DEF cut
      <3> QED BY <1>1, <3>2
    <2> HIDE DEF cut
    <2>3. \A i \in 1..Len(o) : i \in 1..(Len(p) + Len(o)) - (Len(p) + 1) + 1 /\ (Len(p) + 1) + i - 1 = Len(p) + i
      BY <1>1
    <2> QED BY <1>1, <2>2, <2>3
  <1>4. cut = o
    <2> HIDE DEF cut
    <2> QED BY <1>0, <1>3, SeqEqual
  <1> QED BY <1>2, <1>4

(* Replacing what is in the middle leaves the rest. *)
LEMMA MiddleIsReplaced ==
    ASSUME NEW L, NEW file, NEW done, NEW p, NEW o, NEW q, NEW n,
           InMiddle(L, file, p, o, q), InMiddle(L, done, p, n, q)
    PROVE  H!Applied(file, Len(p) + 1, Len(o), n) = done
  <1>0. /\ p \in Seq(L) /\ o \in Seq(L) /\ q \in Seq(L) /\ n \in Seq(L) 
        /\ file = (p \o o) \o q
        /\ done = (p \o n) \o q
    BY DEF InMiddle
  <1> DEFINE head == SubSeq(file, 1, Len(p))
             tail == SubSeq(file, Len(p) + 1 + Len(o), Len(file))
  <1>1. /\ Len(p) \in Nat /\ Len(o) \in Nat /\ Len(q) \in Nat
        /\ file \in Seq(L) /\ Len(file) = Len(p) + Len(o) + Len(q)
        /\ \A i \in 1..Len(p) : file[i] = p[i]
        /\ \A i \in 1..Len(q) : file[Len(p) + Len(o) + i] = q[i]
        /\ \A i \in 1..Len(file) : file[i] \in L
    BY <1>0
  <1>2. H!Applied(file, Len(p) + 1, Len(o), n) = head \o n \o tail
    <2>1. Len(p) + 1 - 1 = Len(p) /\ Len(p) <= Len(file)
      BY <1>1
    <2>2. H!Min({Len(p), Len(file)}) = Len(p)
      <3>1. Len(p) \in Int /\ Len(file) \in Int /\ Len(p) <= Len(file)
        BY <1>1
      <3> QED BY <3>1, SmallerOfTwo
    <2>3. \A at, width : H!Applied(file, at, width, n)
            = SubSeq(file, 1, H!Min({at - 1, Len(file)})) \o n \o SubSeq(file, at + width, Len(file))
      BY DEF H!Applied
    <2>4. H!Applied(file, Len(p) + 1, Len(o), n)
            = SubSeq(file, 1, H!Min({Len(p), Len(file)})) \o n \o SubSeq(file, Len(p) + 1 + Len(o), Len(file))
      <3> DEFINE at == Len(p) + 1
      <3>1. at - 1 = Len(p)
        BY <1>1
      <3> HIDE DEF at
      <3>2. H!Applied(file, at, Len(o), n)
              = SubSeq(file, 1, H!Min({Len(p), Len(file)})) \o n \o SubSeq(file, at + Len(o), Len(file))
        BY <2>3, <3>1
      <3> QED BY <3>2 DEF at
    <2> QED BY <2>2, <2>4
  <1>3. head = p
    <2>1. \A i \in 1..Len(p) : file[i] \in L
      BY <1>1
    <2>2. /\ head \in Seq(L) /\ Len(head) = IF 1 <= Len(p) THEN Len(p) - 1 + 1 ELSE 0
          /\ \A i \in 1..Len(p) - 1 + 1 : head[i] = file[1 + i - 1]
      BY <1>1, <2>1, SubSeqProperties
    <2> HIDE DEF head
    <2>3. Len(head) = Len(p) /\ \A i \in 1..Len(head) : head[i] = p[i]
      BY <1>1, <2>2
    <2> QED BY <1>0, <2>2, <2>3, SeqEqual
  <1>4. tail = q
    <2> DEFINE a == Len(p) + 1 + Len(o)
    <2>1. a \in Int /\ Len(file) \in Int /\ \A i \in a..Len(file) : file[i] \in L
      BY <1>1
    <2>2. /\ tail \in Seq(L) /\ Len(tail) = IF a <= Len(file) THEN Len(file) - a + 1 ELSE 0
          /\ \A i \in 1..Len(file) - a + 1 : tail[i] = file[a + i - 1]
      <3> DEFINE last == SubSeq(file, a, Len(file))
      <3> HIDE DEF a
      <3>1. /\ last \in Seq(L) /\ Len(last) = IF a <= Len(file) THEN Len(file) - a + 1 ELSE 0
            /\ \A i \in 1..Len(file) - a + 1 : last[i] = file[a + i - 1]
        BY <2>1, SubSeqProperties
      <3>2. last = tail
        BY DEF a
      <3> HIDE DEF last, tail
      <3> QED BY <3>1, <3>2
    <2> HIDE DEF tail, head
    <2>3. Len(tail) = Len(q)
      <3>1. Len(file) - a + 1 = Len(q) /\ (a <= Len(file) <=> Len(q) # 0)
        BY <1>1
      <3> QED BY <1>1, <2>2, <3>1
    <2>4. \A i \in 1..Len(tail) : tail[i] = q[i]
      <3>1. \A i \in 1..Len(q) : i \in 1..Len(file) - a + 1 /\ a + i - 1 = Len(p) + Len(o) + i
        BY <1>1
      <3> QED BY <1>1, <2>2, <2>3, <3>1
    <2> QED BY <2>2, <2>3, <2>4, <1>0, SeqEqual
  <1>5. head \o n \o tail = done
    <2> HIDE DEF head, tail
    <2> QED BY <1>0, <1>3, <1>4
  <1> QED BY <1>2, <1>5

-----------------------------------------------------------------------------
(* Where a text occurs in a file. *)
OccursAt(text, file, k) ==
    k \in 1..Len(file) - Len(text) + 1 /\ \A i \in 1..Len(text) : file[k + i - 1] = text[i]

(* It is where the file cut at the place is the text. *)
LEMMA SlicesAreOccurrences ==
    ASSUME NEW L, NEW file \in Seq(L), NEW text \in Seq(L), text # <<>>, NEW k \in Nat \ {0}
    PROVE  H!Slice(file, k, Len(text)) = text <=> OccursAt(text, file, k)
  <1> DEFINE end == k + Len(text) - 1
             m == H!Min({end, Len(file)})
             cut == SubSeq(file, k, m)
  <1>1. Len(text) \in Nat \ {0} /\ Len(file) \in Nat /\ end \in Nat
    OBVIOUS
  <1>2. m = IF end <= Len(file) THEN end ELSE Len(file)
    <2> HIDE DEF end
    <2>1. CASE end <= Len(file)
      BY <1>1, <2>1, SmallerOfTwo
    <2>2. CASE ~(end <= Len(file))
      <3>1. Len(file) <= end /\ {end, Len(file)} = {Len(file), end}
        BY <1>1, <2>2
      <3> QED BY <1>1, <2>2, <3>1, SmallerOfTwo
    <2> QED BY <2>1, <2>2
  <1> HIDE DEF m
  <1>3. /\ cut \in Seq(L) /\ Len(cut) = IF k <= m THEN m - k + 1 ELSE 0
        /\ \A i \in 1..m - k + 1 : cut[i] = file[k + i - 1]
    <2>1. m \in Int /\ k \in Int /\ \A i \in k..m : file[i] \in L
      BY <1>1, <1>2
    <2> QED BY <2>1, SubSeqProperties
  <1>4. H!Slice(file, k, Len(text)) = cut
    BY DEF H!Slice, m
  <1> HIDE DEF cut
  <1>5. ASSUME cut = text PROVE OccursAt(text, file, k)
    <2>1. Len(cut) = Len(text)
      BY <1>5
    <2>2. k <= m /\ m - k + 1 = Len(text) /\ m <= Len(file)
      BY <1>1, <1>2, <1>3, <2>1
    <2>3. k \in 1..Len(file) - Len(text) + 1
      <3>1. m \in Nat
        BY <1>1, <1>2
      <3>2. k + Len(text) <= Len(file) + 1
        BY <1>1, <2>2, <3>1
      <3> QED BY <1>1, <3>2
    <2>4. \A i \in 1..Len(text) : file[k + i - 1] = text[i]
      BY <1>3, <1>5, <2>2
    <2> QED BY <2>3, <2>4 DEF OccursAt
  <1>6. ASSUME OccursAt(text, file, k) PROVE cut = text
    <2>1. m = end /\ m - k + 1 = Len(text) /\ k <= m
      BY <1>1, <1>2, <1>6 DEF OccursAt
    <2>2. Len(cut) = Len(text) /\ \A i \in 1..Len(cut) : cut[i] = text[i]
      BY <1>3, <1>6, <2>1 DEF OccursAt
    <2> QED BY <1>3, <2>2, SeqEqual
  <1> QED BY <1>4, <1>5, <1>6

(* It is where the rest of the file begins with the text. *)
LEMMA OccurrencesOccur ==
    ASSUME NEW L, NEW file \in Seq(L), NEW text \in Seq(L), text # <<>>
    PROVE  Occurrences(text, file) = {k \in Nat : OccursAt(text, file, k)}
  <1>1. Len(text) \in Nat \ {0} /\ Len(file) \in Nat
    OBVIOUS
  <1>2. ASSUME NEW k \in 1..Len(file)
        PROVE  IsPrefix(text, SubSeq(file, k, Len(file))) <=> OccursAt(text, file, k)
    <2> DEFINE rest == SubSeq(file, k, Len(file))
               start == SubSeq(rest, 1, Len(text))
    <2>1. /\ rest \in Seq(L) /\ Len(rest) = Len(file) - k + 1
          /\ \A i \in 1..Len(rest) : rest[i] = file[k + i - 1]
      <3>1. \A i \in k..Len(file) : file[i] \in L
        BY <1>1
      <3>2. /\ rest \in Seq(L) /\ Len(rest) = IF k <= Len(file) THEN Len(file) - k + 1 ELSE 0
            /\ \A i \in 1..Len(file) - k + 1 : rest[i] = file[k + i - 1]
        BY <1>1, <3>1, SubSeqProperties
      <3> HIDE DEF rest
      <3> QED BY <1>1, <3>2
    <2> HIDE DEF rest
    <2>2. SubSeq(text, 1, Len(text)) = text
      BY SubSeqFull
    <2>3. ASSUME Len(text) <= Len(rest)
          PROVE  /\ start \in Seq(L) /\ Len(start) = Len(text)
                 /\ \A i \in 1..Len(text) : start[i] = file[k + i - 1]
      <3>1. \A i \in 1..Len(text) : rest[i] \in L
        BY <1>1, <2>1, <2>3
      <3>2. /\ start \in Seq(L) /\ Len(start) = IF 1 <= Len(text) THEN Len(text) - 1 + 1 ELSE 0
            /\ \A i \in 1..Len(text) - 1 + 1 : start[i] = rest[1 + i - 1]
        BY <1>1, <3>1, SubSeqProperties
      <3> HIDE DEF start
      <3> QED BY <1>1, <2>1, <2>3, <3>2
    <2>4. IsPrefix(text, rest) <=> Len(text) <= Len(rest) /\ text = start
      BY <2>2 DEF IsPrefix
    <2> HIDE DEF start
    <2>5. OccursAt(text, file, k)
            <=> Len(text) <= Len(rest) /\ \A i \in 1..Len(text) : file[k + i - 1] = text[i]
      BY <1>1, <2>1 DEF OccursAt
    <2>6. Len(text) <= Len(rest)
            => (text = start <=> \A i \in 1..Len(text) : file[k + i - 1] = text[i])
      BY <2>3, SeqEqual
    <2> QED BY <2>4, <2>5, <2>6 DEF rest
  <1>3. \A k \in Nat : OccursAt(text, file, k) => k \in 1..Len(file)
    BY <1>1 DEF OccursAt
  <1> QED BY <1>1, <1>2, <1>3 DEF Occurrences

(* A text that is found once is found where it is, wherever it is looked   *)
(* for first.                                                              *)
LEMMA OnlyPlace ==
    ASSUME NEW L, NEW file, NEW p, NEW o, NEW q, InMiddle(L, file, p, o, q), o # <<>>,
           Cardinality(Occurrences(o, file)) = 1, NEW expected \in Nat \ {0}
    PROVE  H!Places(file, o, expected) = {Len(p) + 1}
  <1>0. p \in Seq(L) /\ o \in Seq(L) /\ q \in Seq(L) /\ file = (p \o o) \o q
    BY DEF InMiddle
  <1> DEFINE here == Len(p) + 1
  <1>1. /\ file \in Seq(L) /\ Len(file) = Len(p) + Len(o) + Len(q)
        /\ Len(p) \in Nat /\ Len(o) \in Nat \ {0} /\ Len(q) \in Nat /\ here \in Nat \ {0}
    BY <1>0
  <1>2. H!Slice(file, here, Len(o)) = o
    BY MiddleIsSliced
  <1>3. Cardinality(Occurrences(o, file)) = 1
    OBVIOUS
  <1> HIDE DEF here
  <1>4. Occurrences(o, file) = {k \in Nat : OccursAt(o, file, k)}
    BY <1>0, <1>1, OccurrencesOccur
  <1>5. here \in Occurrences(o, file)
    BY <1>0, <1>1, <1>2, <1>4, SlicesAreOccurrences
  <1>6. Occurrences(o, file) = {here}
    <2>1. IsFiniteSet(Occurrences(o, file))
      <3>1. Occurrences(o, file) \subseteq 1..Len(file)
        BY DEF Occurrences
      <3>2. IsFiniteSet(1..Len(file))
        BY <1>1, FS_Interval
      <3> QED BY <3>1, <3>2, FS_Subset
    <2>2. PICK x : Occurrences(o, file) = {x}
      BY <1>3, <2>1, FS_Singleton
    <2> QED BY <1>5, <2>2
  <1>7. \A k \in Nat \ {0} : H!Slice(file, k, Len(o)) = o <=> k = here
    BY <1>0, <1>1, <1>4, <1>6, SlicesAreOccurrences
  <1>8. ASSUME H!Slice(file, expected, Len(o)) = o PROVE H!Places(file, o, expected) = {here}
    BY <1>7, <1>8 DEF H!Places
  <1>9. ASSUME H!Slice(file, expected, Len(o)) # o PROVE H!Places(file, o, expected) = {here}
    <2>1. H!MatchingStarts(file, o) = {at \in 1..Len(file) - Len(o) + 1 : H!Slice(file, at, Len(o)) = o}
      BY DEF H!MatchingStarts
    <2>2. here \in 1..Len(file) - Len(o) + 1
      BY <1>1 DEF here
    <2>3. \A at \in 1..Len(file) - Len(o) + 1 : at \in Nat \ {0}
      BY <1>1
    <2>4. H!MatchingStarts(file, o) = {here}
      BY <1>7, <2>1, <2>2, <2>3
    <2> QED BY <1>9, <2>4 DEF H!Places
  <1>10. H!Places(file, o, expected) = {here}
    BY <1>8, <1>9
  <1> QED BY <1>10 DEF here

(* The instances of a standard operator are one. *)
LEMMA CardinalitiesAgree == \A T : H!Cardinality(T) = Cardinality(T)
  BY DEF H!Cardinality, Cardinality

(* A hunk that has one place is applied there. *)
LEMMA HunkIsApplied ==
    ASSUME NEW L, NEW file, NEW done, NEW p, NEW o, NEW q, NEW n,
           InMiddle(L, file, p, o, q), InMiddle(L, done, p, n, q),
           NEW hunk, H!Texts(H!OldSide(hunk.lines)) = o, H!Texts(H!NewSide(hunk.lines)) = n,
           NEW offset, NEW places,
           H!Places(file, o, H!Expected(hunk, offset)) = {Len(p) + 1}
    PROVE  H!Locate([ok |-> TRUE, lines |-> file, offset |-> offset, places |-> places], hunk)
             = [ok |-> TRUE, lines |-> done, offset |-> H!OffsetAfter(offset, hunk),
                places |-> Append(places, Len(p) + 1)]
  <1> DEFINE here == Len(p) + 1
             r == [ok |-> TRUE, lines |-> file, offset |-> offset, places |-> places]
  <1>1. H!Cardinality({here}) = 1 /\ (CHOOSE x \in {here} : TRUE) = here
    BY CardinalitiesAgree, FS_Singleton
  <1>2. H!Applied(file, here, Len(o), n) = done
    BY MiddleIsReplaced
  <1> HIDE DEF here
  <1>3. H!Places(r.lines, o, H!Expected(hunk, r.offset)) = {here}
    BY DEF here
  <1>4. r.ok = TRUE /\ r.lines = file /\ r.offset = offset /\ r.places = places
    OBVIOUS
  <1>5. H!Locate(r, hunk)
          = [ok |-> TRUE, lines |-> H!Applied(file, here, Len(o), n),
             offset |-> H!OffsetAfter(offset, hunk), places |-> Append(places, here)]
    <2> HIDE DEF r
    <2> QED BY <1>1, <1>3, <1>4 DEF H!Locate
  <1> QED BY <1>2, <1>5 DEF here

(* One element and then another. *)
LEMMA AppendedAre ==
    ASSUME NEW a, NEW b
    PROVE  Append(<<>>, a) = <<a>> /\ Append(<<a>>, b) = <<a, b>>
  <1>1. Append(<<>>, a) = <<a>>
    OBVIOUS
  <1>2. Append(<<a>>, b) = <<a, b>>
    <2>1. Len(<<a>>) = 1 /\ Len(<<a, b>>) = 2
      OBVIOUS
    <2>2. <<a>> \in Seq({a, b}) /\ <<a, b>> \in Seq({a, b})
      OBVIOUS
    <2>3. Append(<<a>>, b) \in Seq({a, b}) /\ Len(Append(<<a>>, b)) = 2
      BY <2>1, <2>2
    <2>4. \A i \in 1..2 : Append(<<a>>, b)[i] = <<a, b>>[i]
      BY <2>1, <2>2
    <2> QED BY <2>1, <2>2, <2>3, <2>4, SeqEqual
  <1> QED BY <1>1, <1>2

(* A hunk with its sides; two of them, with the file before, between and   *)
(* after them.                                                             *)
HasSides(hunk, o, n) ==
    H!Texts(H!OldSide(hunk.lines)) = o /\ H!Texts(H!NewSide(hunk.lines)) = n

Fit(L, file, half, done, p, o1, n1, q, r, o2, n2, s) ==
    /\ InMiddle(L, file, p, o1, q) /\ InMiddle(L, half, p, n1, q)
    /\ InMiddle(L, half, r, o2, s) /\ InMiddle(L, done, r, n2, s)

AppliedAfter(file, h1, h2, done, p, r) ==
    LET located == H!locate_hunks(file, <<h1, h2>>)
    IN  /\ located.ok = TRUE
        /\ located.lines = done
        /\ located.places = <<Len(p) + 1, Len(r) + 1>>

(* Two hunks that have one place each are applied there, the second to     *)
(* what the first has left.                                                *)
LEMMA HunksAreApplied ==
    ASSUME NEW L, NEW file, NEW half, NEW done,
           NEW p, NEW o1, NEW n1, NEW q, NEW r, NEW o2, NEW n2, NEW s,
           Fit(L, file, half, done, p, o1, n1, q, r, o2, n2, s),
           NEW h1, HasSides(h1, o1, n1), NEW h2, HasSides(h2, o2, n2),
           H!Places(file, o1, H!Expected(h1, 0)) = {Len(p) + 1},
           H!Places(half, o2, H!Expected(h2, H!OffsetAfter(0, h1))) = {Len(r) + 1}
    PROVE  AppliedAfter(file, h1, h2, done, p, r)
  <1> DEFINE start == [ok |-> TRUE, lines |-> file, offset |-> 0, places |-> <<>>]
             offset == H!OffsetAfter(0, h1)
             one == Len(p) + 1
             two == Len(r) + 1
             placed == <<one>>
             first == [ok |-> TRUE, lines |-> half, offset |-> offset, places |-> placed]
             second == [ok |-> TRUE, lines |-> done, offset |-> H!OffsetAfter(offset, h2),
                        places |-> Append(placed, two)]
  <1>0. /\ InMiddle(L, file, p, o1, q) /\ InMiddle(L, half, p, n1, q)
        /\ InMiddle(L, half, r, o2, s) /\ InMiddle(L, done, r, n2, s)
        /\ H!Texts(H!OldSide(h1.lines)) = o1 /\ H!Texts(H!NewSide(h1.lines)) = n1
        /\ H!Texts(H!OldSide(h2.lines)) = o2 /\ H!Texts(H!NewSide(h2.lines)) = n2
    BY DEF Fit, HasSides
  <1>1. H!Locate(start, h1)
          = [ok |-> TRUE, lines |-> half, offset |-> offset, places |-> Append(<<>>, one)]
    <2> DEFINE none == <<>>
               zero == 0
    <2>1. H!Places(file, o1, H!Expected(h1, zero)) = {Len(p) + 1}
      OBVIOUS
    <2> HIDE DEF none, zero
    <2>2. H!Locate([ok |-> TRUE, lines |-> file, offset |-> zero, places |-> none], h1)
            = [ok |-> TRUE, lines |-> half, offset |-> H!OffsetAfter(zero, h1),
               places |-> Append(none, Len(p) + 1)]
      BY <1>0, <2>1, HunkIsApplied
    <2> QED BY <2>2 DEF none, zero
  <1>2. Append(<<>>, one) = placed
    <2> HIDE DEF one
    <2> QED BY AppendedAre
  <1>3. H!Locate(start, h1) = first
    BY <1>1, <1>2
  <1>4. H!Locate(first, h2) = second
    <2> HIDE DEF placed, offset
    <2>1. H!Places(half, o2, H!Expected(h2, offset)) = {Len(r) + 1}
      BY DEF offset
    <2> QED BY <1>0, <2>1, HunkIsApplied
  <1>5. Append(placed, two) = <<one, two>>
    <2> HIDE DEF one, two
    <2> QED BY AppendedAre
  <1>6. H!locate_hunks(file, <<h1, h2>>) = second
    <2>1. H!locate_hunks(file, <<h1, h2>>) = H!Locate(H!Locate(start, h1), h2)
      BY TwoHunksAreLocated
    <2> HIDE DEF start, first, second
    <2> QED BY <1>3, <1>4, <2>1
  <1>7. second.ok = TRUE /\ second.lines = done /\ second.places = <<one, two>>
    <2> HIDE DEF one, two, placed, offset
    <2> QED BY <1>5
  <1> HIDE DEF second
  <1> QED BY <1>6, <1>7 DEF AppliedAfter

(* The greater of two numbers. *)
LEMMA GreaterOfTwo ==
    ASSUME NEW a \in Int, NEW b \in Int, a <= b
    PROVE  H!Max({a, b}) = b
  <1>1. \A x \in {a, b} : (\A y \in {a, b} : x >= y) => x = b
    OBVIOUS
  <1>2. b \in {a, b} /\ \A y \in {a, b} : b >= y
    OBVIOUS
  <1> QED BY <1>1, <1>2 DEF H!Max

-----------------------------------------------------------------------------
(* The five parts of a file, and the two of them that hunks change. *)
AreTexts(L, x, y, z, v, w) ==
    x \in Seq(L) /\ y \in Seq(L) /\ z \in Seq(L) /\ v \in Seq(L) /\ w \in Seq(L)

LEMMA PartsAreInMiddle ==
    ASSUME NEW L, NEW x, NEW y, NEW z, NEW v, NEW w, AreTexts(L, x, y, z, v, w)
    PROVE  /\ InMiddle(L, (((x \o y) \o z) \o v) \o w, x, y, (z \o v) \o w)
           /\ InMiddle(L, (((x \o y) \o z) \o v) \o w, (x \o y) \o z, v, w)
  <1> DEFINE head == x \o y
  <1>1. x \in Seq(L) /\ y \in Seq(L) /\ z \in Seq(L) /\ v \in Seq(L) /\ w \in Seq(L)
    BY DEF AreTexts
  <1>2. head \in Seq(L) /\ (z \o v) \o w \in Seq(L)
    BY <1>1
  <1>3. (head \o z) \in Seq(L)
    <2> HIDE DEF head
    <2> QED BY <1>1, <1>2
  <1>4. head \o ((z \o v) \o w) = ((head \o z) \o v) \o w
    <2> HIDE DEF head
    <2>1. (z \o v) \in Seq(L)
      BY <1>1
    <2>2. head \o ((z \o v) \o w) = (head \o (z \o v)) \o w
      BY <1>1, <1>2, <2>1, ConcatAssociative, SMTT(60)
    <2>3. head \o (z \o v) = (head \o z) \o v
      BY <1>1, <1>2, ConcatAssociative, SMTT(60)
    <2> QED BY <2>2, <2>3
  <1> QED BY <1>1, <1>2, <1>3, <1>4 DEF InMiddle

(* Lines put before a file are put before its first part. *)
LEMMA DriftIsBefore ==
    ASSUME NEW L, NEW d \in Seq(L), NEW x, NEW y, NEW z, NEW v, NEW w, AreTexts(L, x, y, z, v, w)
    PROVE  /\ d \o ((((x \o y) \o z) \o v) \o w) = ((((d \o x) \o y) \o z) \o v) \o w
           /\ AreTexts(L, d \o x, y, z, v, w)
  <1> DEFINE xy == x \o y
             xyz == xy \o z
             xyzv == xyz \o v
  <1>0. \A b, c \in Seq(L) : d \o (b \o c) = (d \o b) \o c
    BY ConcatAssociative, SMTT(60)
  <1>1. x \in Seq(L)
    BY DEF AreTexts
  <1>2. y \in Seq(L)
    BY DEF AreTexts
  <1>3. z \in Seq(L)
    BY DEF AreTexts
  <1>4. v \in Seq(L)
    BY DEF AreTexts
  <1>5. w \in Seq(L)
    BY DEF AreTexts
  <1>6. xy \in Seq(L)
    BY <1>1, <1>2
  <1>7. d \o xy = (d \o x) \o y
    BY <1>1, <1>2, <1>0
  <1> HIDE DEF xy
  <1>8. xyz \in Seq(L)
    BY <1>3, <1>6
  <1>9. d \o xyz = (d \o xy) \o z
    BY <1>3, <1>6, <1>0
  <1> HIDE DEF xyz
  <1>10. xyzv \in Seq(L)
    BY <1>4, <1>8
  <1>11. d \o xyzv = (d \o xyz) \o v
    BY <1>4, <1>8, <1>0
  <1> HIDE DEF xyzv
  <1>12. d \o (xyzv \o w) = (d \o xyzv) \o w
    BY <1>5, <1>10, <1>0
  <1>13. (d \o x) \in Seq(L)
    BY <1>1
  <1>14. d \o (xyzv \o w) = ((((d \o x) \o y) \o z) \o v) \o w
    BY <1>7, <1>9, <1>11, <1>12
  <1>15. xyzv \o w = (((x \o y) \o z) \o v) \o w
    BY DEF xy, xyz, xyzv
  <1> QED BY <1>2, <1>3, <1>4, <1>5, <1>13, <1>14, <1>15 DEF AreTexts

(* The lines of a diff, and what is known of a change whatever the lines   *)
(* of its files are: both sides of each hunk are sequences of lines, and   *)
(* there is something on the old side.                                     *)
DiffLine(L) == [kind : {" ", "-", "+"}, text : L]

IsChange(i, L) ==
    /\ {i.before, i.between, i.after, i.drift} \subseteq Seq(L)
    /\ \A k \in 1..2 :
          /\ H!OldSide(i.bodies[k]) \in Seq(DiffLine(L)) /\ H!OldSide(i.bodies[k]) # <<>>
          /\ H!NewSide(i.bodies[k]) \in Seq(DiffLine(L))

LEMMA TextsAreTexts ==
    ASSUME NEW L, NEW lines \in Seq(DiffLine(L))
    PROVE  /\ H!Texts(lines) \in Seq(L) /\ Len(H!Texts(lines)) = Len(lines)
           /\ lines # <<>> => H!Texts(lines) # <<>>
  <1>1. \A j \in DOMAIN lines : lines[j].text \in L
    <2>1. \A j \in DOMAIN lines : lines[j] \in DiffLine(L)
      OBVIOUS
    <2>2. \A line \in DiffLine(L) : line.text \in L
      BY DEF DiffLine
    <2> QED BY <2>1, <2>2
  <1>2. DOMAIN lines = 1..Len(lines) /\ Len(lines) \in Nat
    OBVIOUS
  <1>3. H!Texts(lines) = [j \in 1..Len(lines) |-> lines[j].text]
    BY <1>2 DEF H!Texts
  <1>4. [j \in 1..Len(lines) |-> lines[j].text] \in Seq(L)
    BY <1>1, <1>2
  <1>5. Len([j \in 1..Len(lines) |-> lines[j].text]) = Len(lines)
    BY <1>2, <1>4
  <1>6. lines # <<>> => Len(lines) # 0
    OBVIOUS
  <1> QED BY <1>3, <1>4, <1>5, <1>6

(* The texts of the sides of a change are texts. *)
LEMMA ChangesAreOfTexts ==
    ASSUME NEW L, NEW i, IsChange(i, L), NEW k \in 1..2
    PROVE  /\ OldText(i.bodies[k]) \in Seq(L) /\ NewText(i.bodies[k]) \in Seq(L)
           /\ OldText(i.bodies[k]) # <<>>
           /\ Len(H!OldSide(i.bodies[k])) = Len(OldText(i.bodies[k]))
           /\ Len(H!NewSide(i.bodies[k])) = Len(NewText(i.bodies[k]))
  <1>1. /\ H!OldSide(i.bodies[k]) \in Seq(DiffLine(L)) /\ H!OldSide(i.bodies[k]) # <<>>
        /\ H!NewSide(i.bodies[k]) \in Seq(DiffLine(L))
    BY DEF IsChange
  <1> QED BY <1>1, TextsAreTexts DEF OldText, NewText

(* What a hunk of a diff is, and how it is looked for. *)
LEMMA HunksAreLookedFor ==
    \A b, old, new, offset :
       /\ DiffHunk(b, old, new).lines = b
       /\ DiffHunk(b, old, new).new.start = new
       /\ H!Expected(DiffHunk(b, old, new), offset) = H!Max({1, old + offset})
       /\ H!OffsetAfter(offset, DiffHunk(b, old, new))
            = offset + Len(H!NewSide(b)) - Len(H!OldSide(b))
  BY ZenonT(60) DEF DiffHunk, Span, H!Expected, H!OffsetAfter

(* The sides of the hunks of a diff, and where each hunk is expected: the  *)
(* first where it says, the second moved by what the first adds.           *)
LEMMA ChangesAreExpected ==
    ASSUME NEW L, NEW i, IsChange(i, L)
    PROVE  /\ DiffHunks(i) = <<DiffHunks(i)[1], DiffHunks(i)[2]>>
           /\ DiffHunks(i)[1].lines = i.bodies[1] /\ DiffHunks(i)[2].lines = i.bodies[2]
           /\ H!Expected(DiffHunks(i)[1], 0) = Len(i.before) + 1
           /\ DiffHunks(i)[1].new.start = Len(i.before) + 1
           /\ H!Expected(DiffHunks(i)[2], H!OffsetAfter(0, DiffHunks(i)[1]))
                = Len(i.before) + Len(NewText(i.bodies[1])) + Len(i.between) + 1
           /\ DiffHunks(i)[2].new.start
                = Len(i.before) + Len(NewText(i.bodies[1])) + Len(i.between) + 1
  <1> DEFINE b == Len(i.before)
             o == Len(OldText(i.bodies[1]))
             n == Len(NewText(i.bodies[1]))
             m == Len(i.between)
             h1 == DiffHunk(i.bodies[1], b + 1, b + 1)
             h2 == DiffHunk(i.bodies[2], b + o + m + 1, b + n + m + 1)
  <1>1. /\ b \in Nat /\ m \in Nat /\ o \in Nat /\ n \in Nat
        /\ Len(H!OldSide(i.bodies[1])) = o /\ Len(H!NewSide(i.bodies[1])) = n
    <2>1. 1 \in 1..2 /\ i.before \in Seq(L) /\ i.between \in Seq(L)
      BY DEF IsChange
    <2>2. /\ OldText(i.bodies[1]) \in Seq(L) /\ NewText(i.bodies[1]) \in Seq(L)
          /\ Len(H!OldSide(i.bodies[1])) = o /\ Len(H!NewSide(i.bodies[1])) = n
      BY <2>1, ChangesAreOfTexts
    <2> QED BY <2>1, <2>2
  <1>2. DiffHunks(i) = <<h1, h2>>
    BY DEF DiffHunks, SecondAt
  <1> HIDE DEF b, o, n, m
  <1>3. /\ h1.lines = i.bodies[1] /\ h1.new.start = b + 1 /\ H!Expected(h1, 0) = b + 1
        /\ H!OffsetAfter(0, h1) = n - o
    <2>1. /\ h1.lines = i.bodies[1] /\ h1.new.start = b + 1
          /\ H!Expected(h1, 0) = H!Max({1, b + 1 + 0})
          /\ H!OffsetAfter(0, h1) = 0 + Len(H!NewSide(i.bodies[1])) - Len(H!OldSide(i.bodies[1]))
      BY HunksAreLookedFor
    <2>2. H!Max({1, b + 1}) = b + 1
      BY <1>1, GreaterOfTwo
    <2>3. b + 1 + 0 = b + 1 /\ 0 + n - o = n - o
      BY <1>1
    <2> HIDE DEF h1
    <2> QED BY <1>1, <2>1, <2>2, <2>3
  <1>4. h2.lines = i.bodies[2] /\ h2.new.start = b + n + m + 1 /\ H!Expected(h2, n - o) = b + n + m + 1
    <2>1. /\ h2.lines = i.bodies[2] /\ h2.new.start = b + n + m + 1
          /\ H!Expected(h2, n - o) = H!Max({1, b + o + m + 1 + (n - o)})
      BY HunksAreLookedFor
    <2>2. b + o + m + 1 + (n - o) = b + n + m + 1
      BY <1>1
    <2>3. H!Max({1, b + n + m + 1}) = b + n + m + 1
      BY <1>1, GreaterOfTwo
    <2> HIDE DEF h2
    <2> QED BY <2>1, <2>2, <2>3
  <1> HIDE DEF h1, h2
  <1>5. DiffHunks(i)[1] = h1 /\ DiffHunks(i)[2] = h2
    BY <1>2
  <1>6. /\ DiffHunks(i) = <<DiffHunks(i)[1], DiffHunks(i)[2]>>
        /\ DiffHunks(i)[1].lines = i.bodies[1] /\ DiffHunks(i)[2].lines = i.bodies[2]
        /\ H!Expected(DiffHunks(i)[1], 0) = b + 1 /\ DiffHunks(i)[1].new.start = b + 1
        /\ H!Expected(DiffHunks(i)[2], H!OffsetAfter(0, DiffHunks(i)[1])) = b + n + m + 1
        /\ DiffHunks(i)[2].new.start = b + n + m + 1
    BY <1>2, <1>3, <1>4, <1>5
  <1> QED BY <1>6 DEF b, n, m

(***************************************************************************)
(* Whatever the lines of the files and of the hunks are, and however many, *)
(* a diff is applied where it says to the file that it was made from, and  *)
(* gives the file that it was made to (patches.locate_hunks).              *)
(***************************************************************************)
THEOREM DiffsAreAppliedInPlace ==
    ASSUME NEW L, input.of = "locate" => IsChange(input, L)
    PROVE  DiffsApplyWhereTheySay
  <1> SUFFICES ASSUME input.of = "locate", input.drift = <<>>, IsChange(input, L)
               PROVE  LET r == H!locate_hunks(OldFile(input), DiffHunks(input))
                      IN  /\ r.ok /\ r.lines = NewFile(input)
                          /\ \A k \in 1..2 : r.places[k] = DiffHunks(input)[k].new.start
    BY DEF DiffsApplyWhereTheySay
  <1> DEFINE b == input.before
             m == input.between
             a == input.after
             o1 == OldText(input.bodies[1])
             n1 == NewText(input.bodies[1])
             o2 == OldText(input.bodies[2])
             n2 == NewText(input.bodies[2])
             h1 == DiffHunks(input)[1]
             h2 == DiffHunks(input)[2]
             upto == (b \o n1) \o m
             file == (((b \o o1) \o m) \o o2) \o a
             half == (((b \o n1) \o m) \o o2) \o a
             done == (((b \o n1) \o m) \o n2) \o a
  <1>1. OldFile(input) = file /\ NewFile(input) = done
    BY DEF OldFile, NewFile
  <1>2. /\ AreTexts(L, b, o1, m, o2, a) /\ AreTexts(L, b, n1, m, o2, a) /\ AreTexts(L, b, n1, m, n2, a)
        /\ o1 # <<>> /\ o2 # <<>>
    <2>1. b \in Seq(L) /\ m \in Seq(L) /\ a \in Seq(L) /\ 1 \in 1..2 /\ 2 \in 1..2
      BY DEF IsChange
    <2>2. o1 \in Seq(L) /\ n1 \in Seq(L) /\ o2 \in Seq(L) /\ n2 \in Seq(L) /\ o1 # <<>> /\ o2 # <<>>
      BY <2>1, ChangesAreOfTexts
    <2> HIDE DEF b, m, a, o1, n1, o2, n2
    <2> QED BY <2>1, <2>2 DEF AreTexts
  <1>3. /\ DiffHunks(input) = <<h1, h2>> /\ h1.lines = input.bodies[1] /\ h2.lines = input.bodies[2]
        /\ H!Expected(h1, 0) = Len(b) + 1 /\ h1.new.start = Len(b) + 1
        /\ H!Expected(h2, H!OffsetAfter(0, h1)) = Len(b) + Len(n1) + Len(m) + 1
        /\ h2.new.start = Len(b) + Len(n1) + Len(m) + 1
    BY ChangesAreExpected
  <1>4. HasSides(h1, o1, n1) /\ HasSides(h2, o2, n2)
    BY <1>3 DEF OldText, NewText, HasSides
  <1> HIDE DEF b, m, a, o1, n1, o2, n2, h1, h2
  <1> DEFINE rest == (m \o o2) \o a
  <1>5. /\ InMiddle(L, file, b, o1, rest) /\ InMiddle(L, half, b, n1, rest)
        /\ InMiddle(L, half, upto, o2, a) /\ InMiddle(L, done, upto, n2, a)
    BY <1>2, PartsAreInMiddle
  <1>6. Len(upto) + 1 = Len(b) + Len(n1) + Len(m) + 1
    BY <1>2 DEF AreTexts
  <1> HIDE DEF upto, file, half, done, rest
  <1>7. H!Places(file, o1, H!Expected(h1, 0)) = {Len(b) + 1}
    <2>1. H!Slice(file, Len(b) + 1, Len(o1)) = o1
      BY <1>2, <1>5, MiddleIsSliced
    <2> QED BY <1>3, <2>1 DEF H!Places
  <1>8. H!Places(half, o2, H!Expected(h2, H!OffsetAfter(0, h1))) = {Len(upto) + 1}
    <2>1. H!Slice(half, Len(upto) + 1, Len(o2)) = o2
      BY <1>2, <1>5, MiddleIsSliced
    <2> QED BY <1>3, <1>6, <2>1 DEF H!Places
  <1>9. LET r == H!locate_hunks(file, <<h1, h2>>)
        IN  r.ok = TRUE /\ r.lines = done /\ r.places = <<Len(b) + 1, Len(upto) + 1>>
    <2>1. Fit(L, file, half, done, b, o1, n1, rest, upto, o2, n2, a)
      BY <1>5 DEF Fit
    <2>2. AppliedAfter(file, h1, h2, done, b, upto)
      BY <1>4, <1>7, <1>8, <2>1, HunksAreApplied
    <2> QED BY <2>2 DEF AppliedAfter
  <1>10. \A k \in 1..2 : <<Len(b) + 1, Len(upto) + 1>>[k] = <<h1, h2>>[k].new.start
    BY <1>3, <1>6
  <1> QED BY <1>1, <1>3, <1>9, <1>10

(***************************************************************************)
(* Nor does it matter which they are when the file has drifted: hunks      *)
(* whose old sides are each found once are applied to them, and the rest   *)
(* of the file is left as it is (patches.locate_hunks).                    *)
(***************************************************************************)
THEOREM DiffsAreAppliedWhereTheyHaveMoved ==
    ASSUME NEW L, input.of = "locate" => IsChange(input, L)
    PROVE  MovedDiffsApply
  <1> DEFINE b == input.drift \o input.before
             m == input.between
             a == input.after
             o1 == OldText(input.bodies[1])
             n1 == NewText(input.bodies[1])
             o2 == OldText(input.bodies[2])
             n2 == NewText(input.bodies[2])
             h1 == DiffHunks(input)[1]
             h2 == DiffHunks(input)[2]
             upto == (b \o n1) \o m
             file == (((b \o o1) \o m) \o o2) \o a
             half == (((b \o n1) \o m) \o o2) \o a
             done == (((b \o n1) \o m) \o n2) \o a
  <1> SUFFICES ASSUME input.of = "locate", IsChange(input, L),
                      Cardinality(Occurrences(o1, input.drift \o OldFile(input))) = 1,
                      Cardinality(Occurrences(o2, input.drift \o HalfFile(input))) = 1
               PROVE  LET r == H!locate_hunks(input.drift \o OldFile(input), DiffHunks(input))
                      IN  r.ok /\ r.lines = input.drift \o NewFile(input)
    BY DEF MovedDiffsApply
  <1>1. /\ AreTexts(L, b, o1, m, o2, a) /\ AreTexts(L, b, n1, m, o2, a) /\ AreTexts(L, b, n1, m, n2, a)
        /\ o1 # <<>> /\ o2 # <<>>
        /\ input.drift \o OldFile(input) = file /\ input.drift \o HalfFile(input) = half
        /\ input.drift \o NewFile(input) = done
    <2> DEFINE x == input.before
               d == input.drift
    <2>1. d \in Seq(L) /\ x \in Seq(L) /\ m \in Seq(L) /\ a \in Seq(L) /\ 1 \in 1..2 /\ 2 \in 1..2
      BY DEF IsChange
    <2>2. o1 \in Seq(L) /\ n1 \in Seq(L) /\ o2 \in Seq(L) /\ n2 \in Seq(L) /\ o1 # <<>> /\ o2 # <<>>
      BY <2>1, ChangesAreOfTexts
    <2>3. /\ input.drift \o OldFile(input) = d \o ((((x \o o1) \o m) \o o2) \o a)
          /\ input.drift \o HalfFile(input) = d \o ((((x \o n1) \o m) \o o2) \o a)
          /\ input.drift \o NewFile(input) = d \o ((((x \o n1) \o m) \o n2) \o a)
      BY DEF OldFile, HalfFile, NewFile
    <2>4. b = d \o x
      OBVIOUS
    <2> HIDE DEF b, x, d, m, a, o1, n1, o2, n2
    <2>5. AreTexts(L, x, o1, m, o2, a) /\ AreTexts(L, x, n1, m, o2, a) /\ AreTexts(L, x, n1, m, n2, a)
      BY <2>1, <2>2 DEF AreTexts
    <2>6. d \in Seq(L)
      BY <2>1
    <2>7. AreTexts(L, b, o1, m, o2, a) /\ d \o ((((x \o o1) \o m) \o o2) \o a) = file
      BY <2>4, <2>5, <2>6, DriftIsBefore
    <2>8. AreTexts(L, b, n1, m, o2, a) /\ d \o ((((x \o n1) \o m) \o o2) \o a) = half
      BY <2>4, <2>5, <2>6, DriftIsBefore
    <2>9. AreTexts(L, b, n1, m, n2, a) /\ d \o ((((x \o n1) \o m) \o n2) \o a) = done
      BY <2>4, <2>5, <2>6, DriftIsBefore
    <2> HIDE DEF file, half, done
    <2> QED BY <2>2, <2>3, <2>7, <2>8, <2>9
  <1>2. /\ DiffHunks(input) = <<h1, h2>> /\ h1.lines = input.bodies[1] /\ h2.lines = input.bodies[2]
        /\ H!Expected(h1, 0) \in Nat \ {0} /\ H!Expected(h2, H!OffsetAfter(0, h1)) \in Nat \ {0}
    <2>1. /\ DiffHunks(input) = <<h1, h2>> /\ h1.lines = input.bodies[1] /\ h2.lines = input.bodies[2]
          /\ H!Expected(h1, 0) = Len(input.before) + 1
          /\ H!Expected(h2, H!OffsetAfter(0, h1)) = Len(input.before) + Len(n1) + Len(m) + 1
      BY ChangesAreExpected
    <2>2. input.before \in Seq(L) /\ m \in Seq(L) /\ 1 \in 1..2
      BY DEF IsChange
    <2>3. n1 \in Seq(L)
      BY <2>2, ChangesAreOfTexts
    <2> HIDE DEF h1, h2, n1, m
    <2> QED BY <2>1, <2>2, <2>3
  <1>3. HasSides(h1, o1, n1) /\ HasSides(h2, o2, n2)
    BY <1>2 DEF OldText, NewText, HasSides
  <1> DEFINE rest == (m \o o2) \o a
  <1> HIDE DEF b, m, a, o1, n1, o2, n2, h1, h2
  <1>4. /\ InMiddle(L, file, b, o1, rest) /\ InMiddle(L, half, b, n1, rest)
        /\ InMiddle(L, half, upto, o2, a) /\ InMiddle(L, done, upto, n2, a)
    BY <1>1, PartsAreInMiddle
  <1> HIDE DEF upto, file, half, done, rest
  <1>5. H!Places(file, o1, H!Expected(h1, 0)) = {Len(b) + 1}
    BY <1>1, <1>2, <1>4, OnlyPlace
  <1>6. H!Places(half, o2, H!Expected(h2, H!OffsetAfter(0, h1))) = {Len(upto) + 1}
    BY <1>1, <1>2, <1>4, OnlyPlace
  <1>7. LET r == H!locate_hunks(file, <<h1, h2>>)
        IN  r.ok = TRUE /\ r.lines = done
    <2>1. Fit(L, file, half, done, b, o1, n1, rest, upto, o2, n2, a)
      BY <1>4 DEF Fit
    <2>2. AppliedAfter(file, h1, h2, done, b, upto)
      BY <1>3, <1>5, <1>6, <2>1, HunksAreApplied
    <2> QED BY <2>2 DEF AppliedAfter
  <1> QED BY <1>1, <1>2, <1>7

-----------------------------------------------------------------------------
(* Diffs. parse_patch is a fold of Consume: what has been read of a diff   *)
(* with one line more is what Consume makes of it.                         *)

(* A set that holds the empty sequence, and with a sequence that sequence  *)
(* and one more element, holds them all.                                   *)
LEMMA SequencesAreReached ==
    ASSUME NEW B, NEW T, <<>> \in T, \A s \in Seq(B) : \A x \in B : s \in T => Append(s, x) \in T
    PROVE  Seq(B) \subseteq T
  <1> DEFINE N == {n \in Nat : \A s \in Seq(B) : Len(s) = n => s \in T}
  <1>1. 0 \in N
    <2>1. \A s \in Seq(B) : Len(s) = 0 => s = <<>>
      BY EmptySeq
    <2> QED BY <2>1
  <1>2. ASSUME NEW n \in Nat, n \in N PROVE n + 1 \in N
    <2>1. ASSUME NEW s \in Seq(B), Len(s) = n + 1 PROVE s \in T
      <3>1. s # <<>>
        BY <2>1
      <3>2. PICK t \in Seq(B), x \in B : s = Append(t, x)
        BY <3>1, SequenceEmptyOrAppend
      <3>3. Len(t) = n
        BY <2>1, <3>2, AppendProperties
      <3> QED BY <1>2, <3>2, <3>3
    <2> QED BY <2>1
  <1>3. Nat \subseteq N
    <2> HIDE DEF N
    <2> QED BY <1>1, <1>2, NumbersAreReached
  <1>4. ASSUME NEW s \in Seq(B) PROVE s \in T
    <2>1. Len(s) \in Nat
      OBVIOUS
    <2>2. Len(s) \in N
      <3> HIDE DEF N
      <3> QED BY <1>3, <2>1
    <2> QED BY <2>2
  <1> QED BY <1>4

(* What has been read of a diff when n lines have been. *)
IsReading(f, diff, policy, n) ==
    f = [i \in 0..n |->
           IF i = 0 THEN H!Nothing ELSE H!Consume(f[i - 1], diff[i], policy)]

(* There is such a function. *)
LEMMA ReadingsExist ==
    ASSUME NEW diff, NEW policy, NEW m \in Nat
    PROVE  \E f : IsReading(f, diff, policy, m)
  <1> DEFINE R(p, i) == H!Consume(p, diff[i], policy)
             Is(f, n) == f = [i \in 0..n |-> IF i = 0 THEN H!Nothing ELSE R(f[i - 1], i)]
             N == {n \in Nat : \E f : Is(f, n)}
  <1> HIDE DEF R
  <1>1. 0 \in N
    <2>1. Is([i \in 0..0 |-> H!Nothing], 0)
      OBVIOUS
    <2> HIDE DEF Is
    <2> QED BY <2>1
  <1>2. ASSUME NEW n \in Nat, n \in N PROVE n + 1 \in N
    <2>1. PICK f : Is(f, n)
      BY <1>2
    <2> DEFINE v == R(f[n], n + 1)
               g == [i \in 0..n + 1 |-> IF i = n + 1 THEN v ELSE f[i]]
    <2> HIDE DEF v
    <2>2. \A i \in 0..n : g[i] = f[i]
      OBVIOUS
    <2>3. ASSUME NEW i \in 0..n + 1 PROVE g[i] = IF i = 0 THEN H!Nothing ELSE R(g[i - 1], i)
      <3>1. CASE i = n + 1
        <4>1. g[i] = v /\ g[i - 1] = f[n]
          BY <3>1
        <4> HIDE DEF g
        <4> QED BY <3>1, <4>1 DEF v
      <3>2. CASE i # n + 1
        <4>1. i \in 0..n /\ (i # 0 => i - 1 \in 0..n)
          BY <3>2
        <4>2. f[i] = IF i = 0 THEN H!Nothing ELSE R(f[i - 1], i)
          BY <2>1, <4>1
        <4> HIDE DEF g
        <4> QED BY <2>2, <4>1, <4>2
      <3> QED BY <3>1, <3>2
    <2>4. Is(g, n + 1)
      <3>1. g = [i \in 0..n + 1 |-> g[i]]
        OBVIOUS
      <3> HIDE DEF g
      <3> QED BY <2>3, <3>1
    <2>5. n + 1 \in Nat
      OBVIOUS
    <2> HIDE DEF Is, g
    <2> QED BY <2>4, <2>5
  <1>3. Nat \subseteq N
    <2> HIDE DEF N
    <2> QED BY <1>1, <1>2, NumbersAreReached
  <1>4. m \in N
    <2> HIDE DEF N
    <2> QED BY <1>3
  <1>5. \E f : Is(f, m)
    BY <1>4
  <1> QED BY <1>5 DEF IsReading, R

(* After is what has been read at the end. *)
LEMMA ReadingEnds ==
    ASSUME NEW diff, NEW policy, Len(diff) \in Nat
    PROVE  \E f : IsReading(f, diff, policy, Len(diff)) /\ H!After(diff, policy) = f[Len(diff)]
  <1> DEFINE h == CHOOSE h : IsReading(h, diff, policy, Len(diff))
  <1>1. IsReading(h, diff, policy, Len(diff))
    BY ReadingsExist
  <1>2. H!After(diff, policy) = h[Len(diff)]
    BY Zenon DEF H!After, IsReading
  <1> HIDE DEF h
  <1> QED BY <1>1, <1>2

(* Before the first line. *)
LEMMA NothingIsRead == ASSUME NEW policy PROVE H!After(<<>>, policy) = H!Nothing
  <1> DEFINE e == <<>>
  <1>1. Len(e) = 0
    OBVIOUS
  <1> HIDE DEF e
  <1>2. PICK f : IsReading(f, e, policy, 0) /\ H!After(e, policy) = f[0]
    BY <1>1, ReadingEnds
  <1>3. f[0] = H!Nothing
    BY <1>2 DEF IsReading
  <1> QED BY <1>2, <1>3 DEF e

(* One line more. *)
LEMMA NextIsRead ==
    ASSUME NEW B, NEW diff \in Seq(B), NEW line \in B, NEW policy
    PROVE  H!After(Append(diff, line), policy) = H!Consume(H!After(diff, policy), line, policy)
  <1> DEFINE n == Len(diff)
             longer == Append(diff, line)
  <1>1. /\ n \in Nat /\ Len(longer) = n + 1
        /\ \A i \in 1..n : longer[i] = diff[i]
        /\ longer[n + 1] = line
    BY AppendProperties
  <1> HIDE DEF longer
  <1>2. PICK f : IsReading(f, diff, policy, n) /\ H!After(diff, policy) = f[n]
    BY <1>1, ReadingEnds
  <1>3. PICK g : IsReading(g, longer, policy, n + 1) /\ H!After(longer, policy) = g[n + 1]
    BY <1>1, ReadingEnds
  <1> HIDE DEF n
  <1> DEFINE N == {i \in Nat : i <= n => f[i] = g[i]}
  <1>4. \A i \in 0..n : f[i] = IF i = 0 THEN H!Nothing ELSE H!Consume(f[i - 1], diff[i], policy)
    BY <1>2 DEF IsReading
  <1>5. \A i \in 0..n + 1 : g[i] = IF i = 0 THEN H!Nothing ELSE H!Consume(g[i - 1], longer[i], policy)
    BY <1>3 DEF IsReading
  <1>6. 0 \in N
    BY <1>1, <1>4, <1>5
  <1>7. ASSUME NEW i \in Nat, i \in N PROVE i + 1 \in N
    <2> DEFINE j == i + 1
    <2>1. j \in Nat /\ j # 0 /\ j - 1 = i
      OBVIOUS
    <2>2. j <= n => j \in 1..n /\ j \in 0..n /\ j \in 0..n + 1 /\ i <= n
      BY <1>1
    <2> HIDE DEF j
    <2>3. j <= n => f[j] = H!Consume(f[i], diff[j], policy) /\ g[j] = H!Consume(g[i], longer[j], policy)
      BY <1>4, <1>5, <2>1, <2>2
    <2>4. j \in N
      BY <1>1, <1>7, <2>1, <2>2, <2>3
    <2> QED BY <2>4 DEF j
  <1>8. n \in N
    <2> HIDE DEF N
    <2>1. Nat \subseteq N
      BY <1>6, <1>7, NumbersAreReached
    <2> QED BY <1>1, <2>1
  <1>9. f[n] = g[n]
    BY <1>1, <1>8
  <1>10. g[n + 1] = H!Consume(g[n], line, policy)
    <2> DEFINE j == n + 1
    <2>1. j \in 0..n + 1 /\ j # 0 /\ j - 1 = n /\ longer[j] = line
      BY <1>1
    <2> HIDE DEF j
    <2>2. g[j] = H!Consume(g[n], line, policy)
      BY <1>5, <2>1
    <2> QED BY <2>2 DEF j
  <1> QED BY <1>2, <1>3, <1>9, <1>10 DEF longer

(* The lines of some kinds among the first n. *)
Kept(kept, line, kinds) == IF line.kind \in kinds THEN Append(kept, line) ELSE kept

IsSelecting(f, lines, kinds, n) ==
    f = [i \in 0..n |-> IF i = 0 THEN <<>> ELSE Kept(f[i - 1], lines[i], kinds)]

(* There is such a function. *)
LEMMA LinesAreSelected ==
    ASSUME NEW lines, NEW kinds, NEW m \in Nat
    PROVE  \E f : IsSelecting(f, lines, kinds, m)
  <1> DEFINE R(p, i) == Kept(p, lines[i], kinds)
             Is(f, n) == f = [i \in 0..n |-> IF i = 0 THEN <<>> ELSE R(f[i - 1], i)]
             N == {n \in Nat : \E f : Is(f, n)}
  <1> HIDE DEF R
  <1>1. 0 \in N
    <2>1. Is([i \in 0..0 |-> <<>>], 0)
      OBVIOUS
    <2> HIDE DEF Is
    <2> QED BY <2>1
  <1>2. ASSUME NEW n \in Nat, n \in N PROVE n + 1 \in N
    <2>1. PICK f : Is(f, n)
      BY <1>2
    <2> DEFINE v == R(f[n], n + 1)
               g == [i \in 0..n + 1 |-> IF i = n + 1 THEN v ELSE f[i]]
    <2> HIDE DEF v
    <2>2. \A i \in 0..n : g[i] = f[i]
      OBVIOUS
    <2>3. ASSUME NEW i \in 0..n + 1 PROVE g[i] = IF i = 0 THEN <<>> ELSE R(g[i - 1], i)
      <3>1. CASE i = n + 1
        <4>1. g[i] = v /\ g[i - 1] = f[n]
          BY <3>1
        <4> HIDE DEF g
        <4> QED BY <3>1, <4>1 DEF v
      <3>2. CASE i # n + 1
        <4>1. i \in 0..n /\ (i # 0 => i - 1 \in 0..n)
          BY <3>2
        <4>2. f[i] = IF i = 0 THEN <<>> ELSE R(f[i - 1], i)
          BY <2>1, <4>1
        <4> HIDE DEF g
        <4> QED BY <2>2, <4>1, <4>2
      <3> QED BY <3>1, <3>2
    <2>4. Is(g, n + 1)
      <3>1. g = [i \in 0..n + 1 |-> g[i]]
        OBVIOUS
      <3> HIDE DEF g
      <3> QED BY <2>3, <3>1
    <2>5. n + 1 \in Nat
      OBVIOUS
    <2> HIDE DEF Is, g
    <2> QED BY <2>4, <2>5
  <1>3. Nat \subseteq N
    <2> HIDE DEF N
    <2> QED BY <1>1, <1>2, NumbersAreReached
  <1>4. m \in N
    <2> HIDE DEF N
    <2> QED BY <1>3
  <1>5. \E f : Is(f, m)
    BY <1>4
  <1> QED BY <1>5 DEF IsSelecting, R

(* LinesOf is those of them all. *)
LEMMA SelectingEnds ==
    ASSUME NEW lines, NEW kinds, Len(lines) \in Nat
    PROVE  \E f : IsSelecting(f, lines, kinds, Len(lines)) /\ H!LinesOf(lines, kinds) = f[Len(lines)]
  <1> DEFINE h == CHOOSE h : IsSelecting(h, lines, kinds, Len(lines))
  <1>1. IsSelecting(h, lines, kinds, Len(lines))
    BY LinesAreSelected
  <1>2. H!LinesOf(lines, kinds) = h[Len(lines)]
    BY Zenon DEF H!LinesOf, IsSelecting, Kept
  <1> HIDE DEF h
  <1> QED BY <1>1, <1>2

(* Of no lines. *)
LEMMA NothingIsSelected == ASSUME NEW kinds PROVE H!LinesOf(<<>>, kinds) = <<>>
  <1> DEFINE e == <<>>
  <1>1. Len(e) = 0
    OBVIOUS
  <1> HIDE DEF e
  <1>2. PICK f : IsSelecting(f, e, kinds, 0) /\ H!LinesOf(e, kinds) = f[0]
    BY <1>1, SelectingEnds
  <1>3. f[0] = <<>>
    BY <1>2 DEF IsSelecting
  <1> QED BY <1>2, <1>3 DEF e

(* One line more. *)
LEMMA NextIsSelected ==
    ASSUME NEW B, NEW lines \in Seq(B), NEW line \in B, NEW kinds
    PROVE  H!LinesOf(Append(lines, line), kinds) = Kept(H!LinesOf(lines, kinds), line, kinds)
  <1> DEFINE n == Len(lines)
             longer == Append(lines, line)
  <1>1. /\ n \in Nat /\ Len(longer) = n + 1
        /\ \A i \in 1..n : longer[i] = lines[i]
        /\ longer[n + 1] = line
    BY AppendProperties
  <1> HIDE DEF longer
  <1>2. PICK f : IsSelecting(f, lines, kinds, n) /\ H!LinesOf(lines, kinds) = f[n]
    BY <1>1, SelectingEnds
  <1>3. PICK g : IsSelecting(g, longer, kinds, n + 1) /\ H!LinesOf(longer, kinds) = g[n + 1]
    BY <1>1, SelectingEnds
  <1> HIDE DEF n
  <1> DEFINE N == {i \in Nat : i <= n => f[i] = g[i]}
  <1>4. \A i \in 0..n : f[i] = IF i = 0 THEN <<>> ELSE Kept(f[i - 1], lines[i], kinds)
    BY <1>2 DEF IsSelecting
  <1>5. \A i \in 0..n + 1 : g[i] = IF i = 0 THEN <<>> ELSE Kept(g[i - 1], longer[i], kinds)
    BY <1>3 DEF IsSelecting
  <1>6. 0 \in N
    BY <1>1, <1>4, <1>5
  <1>7. ASSUME NEW i \in Nat, i \in N PROVE i + 1 \in N
    <2> DEFINE j == i + 1
    <2>1. j \in Nat /\ j # 0 /\ j - 1 = i
      OBVIOUS
    <2>2. j <= n => j \in 1..n /\ j \in 0..n /\ j \in 0..n + 1 /\ i <= n
      BY <1>1
    <2> HIDE DEF j
    <2>3. j <= n => f[j] = Kept(f[i], lines[j], kinds) /\ g[j] = Kept(g[i], longer[j], kinds)
      BY <1>4, <1>5, <2>1, <2>2
    <2>4. j \in N
      BY <1>1, <1>7, <2>1, <2>2, <2>3
    <2> QED BY <2>4 DEF j
  <1>8. n \in N
    <2> HIDE DEF N
    <2>1. Nat \subseteq N
      BY <1>6, <1>7, NumbersAreReached
    <2> QED BY <1>1, <2>1
  <1>9. f[n] = g[n]
    BY <1>1, <1>8
  <1>10. g[n + 1] = Kept(g[n], line, kinds)
    <2> DEFINE j == n + 1
    <2>1. j \in 0..n + 1 /\ j # 0 /\ j - 1 = n /\ longer[j] = line
      BY <1>1
    <2> HIDE DEF j
    <2>2. g[j] = Kept(g[n], line, kinds)
      BY <1>5, <2>1
    <2> QED BY <2>2 DEF j
  <1> QED BY <1>2, <1>3, <1>9, <1>10 DEF longer

(* What is flattened is a sequence of the same elements. *)
LEMMA FlattenedIsSequence ==
    ASSUME NEW B, NEW seqs \in Seq(Seq(B))
    PROVE  FlattenSeq(seqs) \in Seq(B)
  <1>1. CASE seqs = <<>>
    <2>1. Len(seqs) = 0
      BY <1>1
    <2>2. FlattenSeq(seqs) = seqs
      BY <2>1 DEF FlattenSeq
    <2>3. <<>> \in Seq(B)
      BY EmptySeq
    <2> QED BY <1>1, <2>2, <2>3
  <1>2. CASE seqs # <<>>
    <2>1. PICK f \in [1..Len(seqs) -> Seq(B)] : FlattenSeq(seqs) = f[Len(seqs)]
      BY <1>2, FlatteningExists
    <2>2. Len(seqs) \in 1..Len(seqs)
      BY <1>2, EmptySeq
    <2> QED BY <2>1, <2>2
  <1> QED BY <1>1, <1>2

(* Nothing, concatenated. *)
LEMMA NothingIsFlattened == FlattenSeq(<<>>) = <<>>
  <1> DEFINE e == <<>>
  <1>1. Len(e) = 0
    OBVIOUS
  <1> HIDE DEF e
  <1>2. FlattenSeq(e) = e
    BY <1>1 DEF FlattenSeq
  <1> QED BY <1>2 DEF e

(* One sequence more. *)
LEMMA NextIsFlattened ==
    ASSUME NEW B, NEW seqs \in Seq(Seq(B)), NEW next \in Seq(B)
    PROVE  FlattenSeq(Append(seqs, next)) = FlattenSeq(seqs) \o next
  <1> DEFINE n == Len(seqs)
             E == Seq(B)
             longer == Append(seqs, next)
  <1>1. /\ n \in Nat /\ Len(longer) = n + 1
        /\ \A i \in 1..n : longer[i] = seqs[i]
        /\ longer[n + 1] = next
        /\ longer # <<>>
        /\ longer \in Seq(Seq(B))
    <2>1. seqs \in Seq(E) /\ next \in E
      OBVIOUS
    <2> HIDE DEF E
    <2>2. /\ n \in Nat /\ Len(longer) = n + 1
          /\ \A i \in 1..n : longer[i] = seqs[i]
          /\ longer[n + 1] = next
          /\ longer # <<>>
          /\ longer \in Seq(E)
      BY <2>1, AppendProperties
    <2> QED BY <2>2 DEF E
  <1> HIDE DEF longer
  <1>2. PICK g \in [1..Len(longer) -> Seq(B)] :
               Flat(g, longer) /\ FlattenSeq(longer) = g[Len(longer)]
    BY <1>1, FlatteningExists
  <1>3. CASE n = 0
    <2>1. seqs = <<>>
      BY <1>3, EmptySeq
    <2>2. FlattenSeq(longer) = next
      BY <1>1, <1>2, <1>3 DEF Flat
    <2>3. <<>> \o next = next
      BY ConcatEmptySeq
    <2> QED BY <2>1, <2>2, <2>3, NothingIsFlattened DEF longer
  <1>4. CASE n # 0
    <2>1. seqs # <<>>
      BY <1>4
    <2>2. PICK f \in [1..n -> Seq(B)] : Flat(f, seqs) /\ FlattenSeq(seqs) = f[n]
      BY <2>1, FlatteningExists
    <2> HIDE DEF n
    <2> DEFINE N == {i \in Nat : (1 <= i /\ i <= n) => f[i] = g[i]}
    <2>3. \A i \in 1..n : f[i] = IF i = 1 THEN seqs[1] ELSE f[i - 1] \o seqs[i]
      BY <2>2 DEF Flat, n
    <2>4. \A i \in 1..n + 1 : g[i] = IF i = 1 THEN longer[1] ELSE g[i - 1] \o longer[i]
      BY <1>1, <1>2 DEF Flat
    <2>5. 0 \in N
      OBVIOUS
    <2>6. ASSUME NEW i \in Nat, i \in N PROVE i + 1 \in N
      <3> DEFINE j == i + 1
      <3>1. j \in Nat /\ j - 1 = i
        OBVIOUS
      <3>2. (1 <= j /\ j <= n) =>
               j \in 1..n /\ j \in 1..n + 1 /\ 1 \in 1..n /\ (j # 1 => 1 <= i /\ i <= n)
        BY <1>1
      <3> HIDE DEF j
      <3>3. (1 <= j /\ j <= n) => f[j] = IF j = 1 THEN seqs[1] ELSE f[i] \o seqs[j]
        BY <2>3, <3>1, <3>2
      <3>4. (1 <= j /\ j <= n) => g[j] = IF j = 1 THEN longer[1] ELSE g[i] \o longer[j]
        BY <2>4, <3>1, <3>2
      <3>5. (1 <= j /\ j <= n) => longer[j] = seqs[j] /\ longer[1] = seqs[1]
        BY <1>1, <3>2
      <3>6. (1 <= j /\ j <= n /\ j # 1) => f[i] = g[i]
        BY <2>6, <3>2
      <3>7. (1 <= j /\ j <= n) => f[j] = g[j]
        BY <3>3, <3>4, <3>5, <3>6, Zenon
      <3>8. j \in N
        BY <3>1, <3>7
      <3> QED BY <3>8 DEF j
    <2>7. n \in N
      <3> HIDE DEF N
      <3>1. Nat \subseteq N
        BY <2>5, <2>6, NumbersAreReached
      <3> QED BY <1>1, <3>1
    <2>8. f[n] = g[n]
      BY <1>1, <1>4, <2>7
    <2>9. g[n + 1] = g[n] \o next
      <3> DEFINE j == n + 1
      <3>1. j \in 1..n + 1 /\ j # 1 /\ j - 1 = n /\ longer[j] = next
        BY <1>1, <1>4
      <3> HIDE DEF j
      <3>2. g[j] = g[n] \o next
        BY <2>4, <3>1
      <3> QED BY <3>2 DEF j
    <2> QED BY <1>1, <1>2, <2>2, <2>8, <2>9 DEF longer
  <1> QED BY <1>3, <1>4

-----------------------------------------------------------------------------
(* The lines of some kinds are lines. *)
LEMMA SelectedAreLines ==
    ASSUME NEW B, NEW lines \in Seq(B), NEW kinds
    PROVE  H!LinesOf(lines, kinds) \in Seq(B)
  <1> DEFINE T == {s \in Seq(B) : H!LinesOf(s, kinds) \in Seq(B)}
  <1>1. <<>> \in T
    <2>1. <<>> \in Seq(B) /\ H!LinesOf(<<>>, kinds) = <<>>
      BY EmptySeq, NothingIsSelected
    <2> QED BY <2>1
  <1>2. ASSUME NEW s \in Seq(B), NEW x \in B, s \in T PROVE Append(s, x) \in T
    <2> DEFINE kept == H!LinesOf(s, kinds)
    <2>1. kept \in Seq(B)
      BY <1>2
    <2>2. H!LinesOf(Append(s, x), kinds) = Kept(kept, x, kinds)
      BY NextIsSelected
    <2> HIDE DEF kept
    <2>3. Append(kept, x) \in Seq(B) /\ Append(s, x) \in Seq(B)
      BY <2>1, AppendProperties
    <2>4. Kept(kept, x, kinds) \in Seq(B)
      BY <2>1, <2>3 DEF Kept
    <2> QED BY <2>2, <2>3, <2>4
  <1>3. Seq(B) \subseteq T
    <2> HIDE DEF T
    <2> QED BY <1>1, <1>2, SequencesAreReached
  <1> QED BY <1>3

(* There are as many as there are places of one. *)
LEMMA SelectedAreCounted ==
    ASSUME NEW B, NEW lines \in Seq(B), NEW kinds
    PROVE  Len(H!LinesOf(lines, kinds)) = Cardinality({k \in 1..Len(lines) : lines[k].kind \in kinds})
  <1> DEFINE In(s) == {k \in 1..Len(s) : s[k].kind \in kinds}
             Counted(s) == Len(H!LinesOf(s, kinds)) = Cardinality(In(s))
             T == {s \in Seq(B) : Counted(s)}
  <1>1. Counted(<<>>)
    <2>1. In(<<>>) = {}
      OBVIOUS
    <2> HIDE DEF In
    <2>2. Cardinality(In(<<>>)) = 0
      BY <2>1, FS_EmptySet
    <2> QED BY <2>2, NothingIsSelected
  <1>2. ASSUME NEW s \in Seq(B), NEW x \in B, Counted(s) PROVE Counted(Append(s, x))
    <2> DEFINE t == Append(s, x)
               n == Len(s)
               kept == H!LinesOf(s, kinds)
    <2>1. n \in Nat /\ Len(t) = n + 1 /\ (\A i \in 1..n : t[i] = s[i]) /\ t[n + 1] = x
      BY AppendProperties
    <2>2. H!LinesOf(t, kinds) = Kept(kept, x, kinds)
      BY NextIsSelected
    <2>3. kept \in Seq(B)
      BY SelectedAreLines
    <2>4. Len(Append(kept, x)) = Len(kept) + 1
      <3> HIDE DEF kept
      <3> QED BY <2>3, AppendProperties
    <2> HIDE DEF t, kept
    <2>5. In(t) = IF x.kind \in kinds THEN In(s) \cup {n + 1} ELSE In(s)
      <3>1. ASSUME NEW k PROVE k \in In(t) <=> (k \in In(s) \/ (k = n + 1 /\ x.kind \in kinds))
        BY <2>1
      <3> HIDE DEF In
      <3> QED BY <3>1
    <2>6. n + 1 \notin In(s)
      BY <2>1
    <2>7. IsFiniteSet(In(s))
      <3>1. IsFiniteSet(1..n) /\ In(s) \subseteq 1..n
        BY <2>1, FS_Interval
      <3> QED BY <3>1, FS_Subset
    <2> HIDE DEF In
    <2>8. Cardinality(In(s) \cup {n + 1}) = Cardinality(In(s)) + 1
      BY <2>6, <2>7, FS_AddElement
    <2>9. Len(kept) = Cardinality(In(s))
      BY <1>2 DEF kept
    <2>10. Len(H!LinesOf(t, kinds)) = Cardinality(In(t))
      BY <2>2, <2>4, <2>5, <2>8, <2>9 DEF Kept
    <2> QED BY <2>10 DEF t
  <1>3. Seq(B) \subseteq T
    <2>1. \A s \in Seq(B) : \A x \in B : Append(s, x) \in Seq(B)
      BY AppendProperties
    <2> HIDE DEF Counted
    <2>2. <<>> \in T /\ \A s \in Seq(B) : \A x \in B : s \in T => Append(s, x) \in T
      BY <1>1, <1>2, <2>1
    <2> HIDE DEF T
    <2> QED BY <2>2, SequencesAreReached
  <1> QED BY <1>3

-----------------------------------------------------------------------------
(* What Render writes: of files, of hunks, of one line more. *)

(* What a diff may be of: texts of words W, the lines of a diff, and the   *)
(* hunks and the files that are read from them.                            *)
HeaderText(W) == {"--", "++"} \X W \X W
FollowedText(W) == {"--", "++"} \X W \X W \X W
FileText(W) == {<<w>> : w \in W} \cup HeaderText(W) \cup FollowedText(W)
Spans == [start : Nat, count : Nat]
HunkLine == [kind : {"@@"}, old : Spans, new : Spans]
InputLine(W) == DiffLine(FileText(W)) \cup HunkLine \cup [kind : Noise]
ReadHunk(W) == [old : Spans, new : Spans, lines : Seq(DiffLine(FileText(W)))]
ReadFile(W) == [path : W, hunks : Seq(ReadHunk(W))]

Headers(path) == <<Line("-", <<"--", "a/", path>>), Line("+", <<"++", "b/", path>>)>>
RenderHunks(hunks) == FlattenSeq([k \in DOMAIN hunks |-> RenderHunk(hunks[k])])
Grown(hunk, line) == [hunk EXCEPT !.lines = Append(@, line)]

(* A sequence with one more element. *)
LEMMA AppendedIs ==
    ASSUME NEW B, NEW s \in Seq(B), NEW x \in B, NEW t \in Seq(B), Len(t) = Len(s) + 1,
           \A k \in 1..Len(s) : t[k] = s[k], t[Len(s) + 1] = x
    PROVE  t = Append(s, x)
  <1> DEFINE u == Append(s, x)
             n == Len(s)
  <1>1. /\ n \in Nat /\ u \in Seq(B) /\ Len(u) = n + 1
        /\ \A k \in 1..n : u[k] = s[k]
        /\ u[n + 1] = x
    BY AppendProperties
  <1> HIDE DEF u
  <1>2. \A k \in 1..Len(t) : t[k] = u[k]
    BY <1>1
  <1>3. t = u
    BY <1>1, <1>2, SeqEqual
  <1> QED BY <1>3 DEF u

(* A function on the numbers to n is a sequence. *)
LEMMA FunctionsAreSequences ==
    ASSUME NEW B, NEW n \in Nat, NEW f \in [1..n -> B]
    PROVE  f \in Seq(B) /\ Len(f) = n
  OBVIOUS

(* An element after a concatenation. *)
LEMMA ConcatenationsAppend ==
    ASSUME NEW B, NEW s \in Seq(B), NEW t \in Seq(B), NEW x \in B
    PROVE  s \o Append(t, x) = Append(s \o t, x)
  <1> DEFINE y == <<x>>
  <1>1. y \in Seq(B)
    OBVIOUS
  <1>2. Append(t, x) = t \o y
    BY AppendIsConcat
  <1>3. s \o t \in Seq(B)
    BY ConcatProperties
  <1>4. Append(s \o t, x) = (s \o t) \o y
    BY <1>3, AppendIsConcat
  <1> HIDE DEF y
  <1> QED BY <1>1, <1>2, <1>4, ConcatAssociative

-----------------------------------------------------------------------------
(* What is rendered is lines. *)
LEMMA HunksAreLines ==
    ASSUME NEW W, NEW hunk \in ReadHunk(W)
    PROVE  RenderHunk(hunk) \in Seq(InputLine(W))
  <1> DEFINE l == [kind |-> "@@", old |-> hunk.old, new |-> hunk.new]
             B == InputLine(W)
  <1>1. l \in HunkLine /\ hunk.lines \in Seq(DiffLine(FileText(W)))
    BY DEF ReadHunk, HunkLine
  <1>2. l \in B /\ DiffLine(FileText(W)) \subseteq B
    BY <1>1 DEF InputLine
  <1>3. RenderHunk(hunk) = <<l>> \o hunk.lines
    BY DEF RenderHunk
  <1> HIDE DEF l, B
  <1>4. hunk.lines \in Seq(B) /\ <<l>> \in Seq(B)
    BY <1>1, <1>2, SeqMonotonic
  <1>5. <<l>> \o hunk.lines \in Seq(B)
    BY <1>4, ConcatProperties
  <1> QED BY <1>3, <1>5 DEF B

(* One line more. *)
LEMMA NextOfHunk ==
    ASSUME NEW W, NEW hunk \in ReadHunk(W), NEW line \in DiffLine(FileText(W))
    PROVE  /\ Grown(hunk, line) \in ReadHunk(W)
           /\ RenderHunk(Grown(hunk, line)) = Append(RenderHunk(hunk), line)
  <1> DEFINE l == [kind |-> "@@", old |-> hunk.old, new |-> hunk.new]
             D == DiffLine(FileText(W))
             B == InputLine(W)
             u == Append(hunk.lines, line)
             longer == [hunk EXCEPT !.lines = Append(@, line)]
  <1>1. l \in HunkLine /\ hunk.lines \in Seq(D)
    BY DEF ReadHunk, HunkLine
  <1>2. l \in B /\ D \subseteq B
    BY <1>1 DEF InputLine
  <1>3. u \in Seq(D)
    <2>1. line \in D
      OBVIOUS
    <2> HIDE DEF D
    <2> QED BY <1>1, <2>1, AppendProperties
  <1>4. longer \in ReadHunk(W)
    <2>1. longer = [hunk EXCEPT !.lines = u]
      OBVIOUS
    <2> HIDE DEF u, longer
    <2> QED BY <1>3, <2>1 DEF ReadHunk
  <1>5. RenderHunk(longer) = <<l>> \o u /\ RenderHunk(hunk) = <<l>> \o hunk.lines
    BY DEF RenderHunk, ReadHunk
  <1> HIDE DEF l, D, B
  <1>6. hunk.lines \in Seq(B) /\ <<l>> \in Seq(B) /\ line \in B
    BY <1>1, <1>2, SeqMonotonic DEF D
  <1> HIDE DEF longer
  <1>7. <<l>> \o u = Append(<<l>> \o hunk.lines, line)
    BY <1>6, ConcatenationsAppend
  <1> QED BY <1>4, <1>5, <1>7, Zenon DEF longer, Grown

(* So are hunks. *)
LEMMA RenderedHunks ==
    ASSUME NEW W, NEW hunks \in Seq(ReadHunk(W))
    PROVE  /\ [k \in DOMAIN hunks |-> RenderHunk(hunks[k])] \in Seq(Seq(InputLine(W)))
           /\ Len([k \in DOMAIN hunks |-> RenderHunk(hunks[k])]) = Len(hunks)
           /\ RenderHunks(hunks) \in Seq(InputLine(W))
  <1> DEFINE B == Seq(InputLine(W))
             n == Len(hunks)
             m == [k \in 1..n |-> RenderHunk(hunks[k])]
  <1>1. n \in Nat /\ DOMAIN hunks = 1..n /\ \A k \in 1..n : hunks[k] \in ReadHunk(W)
    OBVIOUS
  <1>2. \A k \in 1..n : RenderHunk(hunks[k]) \in B
    BY <1>1, HunksAreLines
  <1>3. m \in [1..n -> B]
    <2> HIDE DEF B
    <2> QED BY <1>2
  <1>4. m \in Seq(B) /\ Len(m) = n
    <2> HIDE DEF B, m, n
    <2> QED BY <1>1, <1>3, FunctionsAreSequences
  <1>5. FlattenSeq(m) \in Seq(InputLine(W))
    <2> HIDE DEF m
    <2> QED BY <1>4, FlattenedIsSequence
  <1>6. RenderHunks(hunks) = FlattenSeq(m)
    BY <1>1 DEF RenderHunks
  <1> QED BY <1>1, <1>4, <1>5, <1>6

(* One hunk more. *)
LEMMA NextHunk ==
    ASSUME NEW W, NEW hunks \in Seq(ReadHunk(W)), NEW hunk \in ReadHunk(W)
    PROVE  RenderHunks(Append(hunks, hunk)) = RenderHunks(hunks) \o RenderHunk(hunk)
  <1> DEFINE B == Seq(InputLine(W))
             n == Len(hunks)
             longer == Append(hunks, hunk)
             m == [k \in DOMAIN hunks |-> RenderHunk(hunks[k])]
             t == [k \in DOMAIN longer |-> RenderHunk(longer[k])]
             r == RenderHunk(hunk)
  <1>1. /\ n \in Nat /\ longer \in Seq(ReadHunk(W)) /\ Len(longer) = n + 1
        /\ \A k \in 1..n : longer[k] = hunks[k]
        /\ longer[n + 1] = hunk
    BY AppendProperties
  <1> HIDE DEF longer
  <1>2. DOMAIN longer = 1..n + 1 /\ DOMAIN hunks = 1..n
    BY <1>1
  <1>3. m \in Seq(B) /\ Len(m) = n /\ t \in Seq(B) /\ Len(t) = n + 1 /\ r \in B
    BY <1>1, RenderedHunks, HunksAreLines
  <1>4. (\A k \in 1..n : t[k] = m[k]) /\ t[n + 1] = r
    BY <1>1, <1>2
  <1>5. RenderHunks(longer) = FlattenSeq(t) /\ RenderHunks(hunks) = FlattenSeq(m)
    BY DEF RenderHunks
  <1> HIDE DEF B, m, t, r, n
  <1>6. t = Append(m, r)
    BY <1>3, <1>4, AppendedIs
  <1>7. FlattenSeq(t) = FlattenSeq(m) \o r
    BY <1>3, <1>6, NextIsFlattened DEF B
  <1> QED BY <1>5, <1>7 DEF longer, r

(* Before the first hunk. *)
LEMMA NoHunks == RenderHunks(<<>>) = <<>>
  <1>1. [k \in DOMAIN <<>> |-> RenderHunk(<<>>[k])] = <<>>
    OBVIOUS
  <1> QED BY <1>1, NothingIsFlattened DEF RenderHunks

(* The words: the prefixes of paths are some, the marks of headers are not. *)
AreWords(W) == {"", "a/", "b/"} \subseteq W /\ {"--", "++"} \cap W = {}

(* The headers of a file are lines. *)
LEMMA HeadersAreLines ==
    ASSUME NEW W, AreWords(W), NEW path \in W
    PROVE  /\ Line("-", <<"--", "a/", path>>) \in DiffLine(FileText(W))
           /\ Line("+", <<"++", "b/", path>>) \in DiffLine(FileText(W))
           /\ Headers(path) \in Seq(InputLine(W))
  <1> DEFINE D == DiffLine(FileText(W))
             a == Line("-", <<"--", "a/", path>>)
             b == Line("+", <<"++", "b/", path>>)
             B == InputLine(W)
  <1>1. <<"--", "a/", path>> \in FileText(W) /\ <<"++", "b/", path>> \in FileText(W)
    BY DEF AreWords, FileText, HeaderText
  <1>2. a \in D /\ b \in D
    BY <1>1 DEF DiffLine, Line
  <1>3. D \subseteq B
    BY DEF InputLine
  <1>4. Headers(path) = <<a, b>>
    BY DEF Headers
  <1> HIDE DEF a, b, D, B
  <1>5. <<a, b>> \in Seq(B)
    BY <1>2, <1>3
  <1> QED BY <1>2, <1>4, <1>5 DEF a, b, D, B

(* So is a file, headers and hunks. *)
LEMMA FilesAreLines ==
    ASSUME NEW W, AreWords(W), NEW path \in W, NEW hunks \in Seq(ReadHunk(W))
    PROVE  /\ [path |-> path, hunks |-> hunks] \in ReadFile(W)
           /\ RenderFile([path |-> path, hunks |-> hunks]) = Headers(path) \o RenderHunks(hunks)
           /\ RenderFile([path |-> path, hunks |-> hunks]) \in Seq(InputLine(W))
  <1> DEFINE file == [path |-> path, hunks |-> hunks]
             B == InputLine(W)
  <1>1. file \in ReadFile(W)
    BY DEF ReadFile
  <1>2. RenderFile(file) = Headers(path) \o RenderHunks(hunks)
    BY DEF RenderFile, RenderHunks, Headers
  <1>3. Headers(path) \in Seq(B) /\ RenderHunks(hunks) \in Seq(B)
    BY HeadersAreLines, RenderedHunks
  <1> HIDE DEF B, file
  <1>4. Headers(path) \o RenderHunks(hunks) \in Seq(B)
    BY <1>3, ConcatProperties
  <1> QED BY <1>1, <1>2, <1>4 DEF file, B

(* Any file. *)
LEMMA RenderedFile ==
    ASSUME NEW W, AreWords(W), NEW file \in ReadFile(W)
    PROVE  RenderFile(file) \in Seq(InputLine(W))
  <1>1. /\ file.path \in W /\ file.hunks \in Seq(ReadHunk(W))
        /\ file = [path |-> file.path, hunks |-> file.hunks]
    BY DEF ReadFile
  <1>2. RenderFile([path |-> file.path, hunks |-> file.hunks]) \in Seq(InputLine(W))
    BY <1>1, FilesAreLines
  <1> QED BY <1>1, <1>2

(* And files. *)
LEMMA RenderedFiles ==
    ASSUME NEW W, AreWords(W), NEW files \in Seq(ReadFile(W))
    PROVE  /\ [k \in DOMAIN files |-> RenderFile(files[k])] \in Seq(Seq(InputLine(W)))
           /\ Len([k \in DOMAIN files |-> RenderFile(files[k])]) = Len(files)
           /\ Render(files) \in Seq(InputLine(W))
  <1> DEFINE B == Seq(InputLine(W))
             n == Len(files)
             m == [k \in 1..n |-> RenderFile(files[k])]
  <1>1. n \in Nat /\ DOMAIN files = 1..n /\ \A k \in 1..n : files[k] \in ReadFile(W)
    OBVIOUS
  <1>2. \A k \in 1..n : RenderFile(files[k]) \in B
    BY <1>1, RenderedFile
  <1>3. m \in [1..n -> B]
    <2> HIDE DEF B
    <2> QED BY <1>2
  <1>4. m \in Seq(B) /\ Len(m) = n
    <2> HIDE DEF B, m, n
    <2> QED BY <1>1, <1>3, FunctionsAreSequences
  <1>5. FlattenSeq(m) \in Seq(InputLine(W))
    <2> HIDE DEF m
    <2> QED BY <1>4, FlattenedIsSequence
  <1>6. Render(files) = FlattenSeq(m)
    BY <1>1 DEF Render
  <1> QED BY <1>1, <1>4, <1>5, <1>6

(* One file more. *)
LEMMA NextFile ==
    ASSUME NEW W, AreWords(W), NEW files \in Seq(ReadFile(W)), NEW file \in ReadFile(W)
    PROVE  Render(Append(files, file)) = Render(files) \o RenderFile(file)
  <1> DEFINE B == Seq(InputLine(W))
             n == Len(files)
             longer == Append(files, file)
             m == [k \in DOMAIN files |-> RenderFile(files[k])]
             t == [k \in DOMAIN longer |-> RenderFile(longer[k])]
             r == RenderFile(file)
  <1>1. /\ n \in Nat /\ longer \in Seq(ReadFile(W)) /\ Len(longer) = n + 1
        /\ \A k \in 1..n : longer[k] = files[k]
        /\ longer[n + 1] = file
    BY AppendProperties
  <1> HIDE DEF longer
  <1>2. DOMAIN longer = 1..n + 1 /\ DOMAIN files = 1..n
    BY <1>1
  <1>3. m \in Seq(B) /\ Len(m) = n /\ t \in Seq(B) /\ Len(t) = n + 1 /\ r \in B
    BY <1>1, RenderedFiles, RenderedFile
  <1>4. (\A k \in 1..n : t[k] = m[k]) /\ t[n + 1] = r
    BY <1>1, <1>2
  <1>5. Render(longer) = FlattenSeq(t) /\ Render(files) = FlattenSeq(m)
    BY DEF Render
  <1> HIDE DEF B, m, t, r, n
  <1>6. t = Append(m, r)
    BY <1>3, <1>4, AppendedIs
  <1>7. FlattenSeq(t) = FlattenSeq(m) \o r
    BY <1>3, <1>6, NextIsFlattened DEF B
  <1> QED BY <1>5, <1>7 DEF longer, r

(* Before the first file. *)
LEMMA NoFiles == Render(<<>>) = <<>>
  <1>1. [k \in DOMAIN <<>> |-> RenderFile(<<>>[k])] = <<>>
    OBVIOUS
  <1> QED BY <1>1, NothingIsFlattened DEF Render

-----------------------------------------------------------------------------
(* The last of the files, when a line is added to its hunks. *)
LEMMA LastFileGrows ==
    ASSUME NEW W, AreWords(W), NEW files \in Seq(ReadFile(W)), NEW path \in W,
           NEW hunks \in Seq(ReadHunk(W)), NEW more \in Seq(ReadHunk(W)), NEW line \in InputLine(W),
           RenderHunks(more) = Append(RenderHunks(hunks), line)
    PROVE  Render(Append(files, [path |-> path, hunks |-> more]))
             = Append(Render(Append(files, [path |-> path, hunks |-> hunks])), line)
  <1> DEFINE B == InputLine(W)
             r == Render(files)
             hd == Headers(path)
             hs == RenderHunks(hunks)
             ms == RenderHunks(more)
             f == [path |-> path, hunks |-> hunks]
             g == [path |-> path, hunks |-> more]
  <1>1. /\ f \in ReadFile(W) /\ RenderFile(f) = hd \o hs
        /\ g \in ReadFile(W) /\ RenderFile(g) = hd \o ms
    BY FilesAreLines
  <1> HIDE DEF f, g
  <1>2. Render(Append(files, f)) = r \o RenderFile(f) /\ Render(Append(files, g)) = r \o RenderFile(g)
    BY <1>1, NextFile
  <1>3. r \in Seq(B) /\ hd \in Seq(B) /\ hs \in Seq(B) /\ line \in B
    BY RenderedFiles, HeadersAreLines, RenderedHunks
  <1>4. ms = Append(hs, line)
    OBVIOUS
  <1> HIDE DEF B, r, hd, hs, ms
  <1>5. hd \o ms = Append(hd \o hs, line) /\ hd \o hs \in Seq(B)
    BY <1>3, <1>4, ConcatenationsAppend, ConcatProperties
  <1>6. r \o Append(hd \o hs, line) = Append(r \o (hd \o hs), line)
    BY <1>3, <1>5, ConcatenationsAppend, SMTT(60)
  <1>7. Render(Append(files, g)) = Append(Render(Append(files, f)), line)
    BY <1>1, <1>2, <1>5, <1>6
  <1> QED BY <1>7 DEF f, g

(* A hunk begins with its header. *)
LEMMA HunkBegins ==
    ASSUME NEW W, NEW hunks \in Seq(ReadHunk(W)), NEW old \in Spans, NEW new \in Spans
    PROVE  /\ [old |-> old, new |-> new, lines |-> <<>>] \in ReadHunk(W)
           /\ RenderHunks(Append(hunks, [old |-> old, new |-> new, lines |-> <<>>]))
                = Append(RenderHunks(hunks), [kind |-> "@@", old |-> old, new |-> new])
  <1> DEFINE hunk == [old |-> old, new |-> new, lines |-> <<>>]
             l == [kind |-> "@@", old |-> old, new |-> new]
             B == InputLine(W)
             hs == RenderHunks(hunks)
  <1>1. hunk \in ReadHunk(W)
    BY EmptySeq DEF ReadHunk
  <1>2. l \in B
    BY DEF InputLine, HunkLine
  <1>3. RenderHunk(hunk) = <<l>> \o <<>>
    BY DEF RenderHunk
  <1> HIDE DEF l
  <1>4. <<l>> \o <<>> = <<l>>
    OBVIOUS
  <1> HIDE DEF B, hunk
  <1>5. RenderHunks(Append(hunks, hunk)) = hs \o <<l>>
    BY <1>1, <1>3, <1>4, NextHunk
  <1>6. hs \in Seq(B)
    BY RenderedHunks DEF B
  <1> HIDE DEF hs
  <1>7. hs \o <<l>> = Append(hs, l)
    BY <1>2, <1>6, AppendIsConcat
  <1> QED BY <1>1, <1>5, <1>7 DEF hunk, hs, l

(* And goes on with its lines. *)
LEMMA LastHunkGrows ==
    ASSUME NEW W, NEW hunks \in Seq(ReadHunk(W)), NEW hunk \in ReadHunk(W),
           NEW line \in DiffLine(FileText(W))
    PROVE  RenderHunks(Append(hunks, Grown(hunk, line)))
             = Append(RenderHunks(Append(hunks, hunk)), line)
  <1> DEFINE longer == Grown(hunk, line)
             B == InputLine(W)
             hs == RenderHunks(hunks)
             r == RenderHunk(hunk)
  <1>1. longer \in ReadHunk(W) /\ RenderHunk(longer) = Append(r, line)
    BY NextOfHunk
  <1> HIDE DEF longer
  <1>2. RenderHunks(Append(hunks, longer)) = hs \o Append(r, line)
    BY <1>1, NextHunk
  <1>3. RenderHunks(Append(hunks, hunk)) = hs \o r
    BY NextHunk
  <1>4. hs \in Seq(B) /\ r \in Seq(B) /\ line \in B
    <2>1. line \in B
      BY DEF InputLine
    <2> QED BY <2>1, RenderedHunks, HunksAreLines
  <1> HIDE DEF B, hs, r
  <1>5. hs \o Append(r, line) = Append(hs \o r, line)
    BY <1>4, ConcatenationsAppend
  <1> QED BY <1>2, <1>3, <1>5 DEF longer

(* The last element of a sequence, replaced. *)
LEMMA LastIsReplaced ==
    ASSUME NEW B, NEW s \in Seq(B), NEW x \in B, NEW y \in B
    PROVE  /\ Len(Append(s, x)) = Len(s) + 1
           /\ Append(s, x)[Len(s) + 1] = x
           /\ [Append(s, x) EXCEPT ![Len(s) + 1] = y] = Append(s, y)
  <1> DEFINE t == Append(s, x)
             u == Append(s, y)
             n == Len(s)
             v == [t EXCEPT ![n + 1] = y]
  <1>1. /\ n \in Nat /\ t \in Seq(B) /\ Len(t) = n + 1
        /\ \A k \in 1..n : t[k] = s[k]
        /\ t[n + 1] = x
    BY AppendProperties
  <1> HIDE DEF t
  <1>2. n + 1 \in 1..Len(t)
    BY <1>1
  <1>3. /\ v \in Seq(B) /\ Len(v) = Len(t)
        /\ \A j \in 1..Len(t) : v[j] = IF j = n + 1 THEN y ELSE t[j]
    BY <1>1, <1>2, ExceptSeq
  <1> HIDE DEF v
  <1>4. Len(v) = n + 1 /\ (\A k \in 1..n : v[k] = s[k]) /\ v[n + 1] = y
    BY <1>1, <1>2, <1>3
  <1>5. v = u
    BY <1>3, <1>4, AppendedIs
  <1> QED BY <1>1, <1>5 DEF t, v

-----------------------------------------------------------------------------
(* What is known of what has been read: the files before the last hunk are *)
(* whole, and rendered they are the lines that say something.              *)

(* Hunks whose counts are those of their lines, and files that are read    *)
(* whole and may be changed.                                               *)
CountedHunk(W) == {hunk \in ReadHunk(W) : H!CountsHold(hunk)}
WholeFile(W, policy) ==
    {file \in ReadFile(W) : file.path \in policy.allowed /\ file.hunks \in Seq(CountedHunk(W))}

(* The files before the one that is read, and that one: its path and its   *)
(* hunks.                                                                  *)
EndsWith(W, policy, files, done, path, hunks) ==
    /\ done \in Seq(WholeFile(W, policy)) /\ path \in W /\ path \in policy.allowed
    /\ hunks \in Seq(ReadHunk(W))
    /\ files = Append(done, [path |-> path, hunks |-> hunks])

(* In the lines of the last hunk. *)
InHunk(W, policy, files, done, path, hunks, hunk) ==
    /\ EndsWith(W, policy, files, done, path, Append(hunks, hunk))
    /\ hunks \in Seq(CountedHunk(W)) /\ hunk \in ReadHunk(W)

ParseState(W) ==
    [state : {"top", "old", "file", "body", "refused"}, old : W, files : Seq(ReadFile(W))]

(* What is known when the lines of a diff have been read. *)
HasRead(W, policy, p, diff) ==
    /\ p \in ParseState(W)
    /\ p.state \in {"top", "old"} => p.files \in Seq(WholeFile(W, policy))
    /\ p.state = "file" => \E done, path : EndsWith(W, policy, p.files, done, path, <<>>)
    /\ p.state = "body" =>
          \E done, path, hunks, hunk : InHunk(W, policy, p.files, done, path, hunks, hunk)
    /\ p.state \in {"top", "file", "body"} => Significant(diff) = Render(p.files)
    /\ p.state = "old" =>
          Significant(diff) = Append(Render(p.files), Line("-", <<"--", "a/", p.old>>))

(* One line more of a diff. *)
LEMMA NextIsSignificant ==
    ASSUME NEW B, NEW diff \in Seq(B), NEW line \in B
    PROVE  Significant(Append(diff, line)) =
             IF line.kind \in {" ", "-", "+", "@@"} THEN Append(Significant(diff), line)
             ELSE Significant(diff)
  BY NextIsSelected, Zenon DEF Significant, Kept

(* The last of a sequence. *)
LEMMA LastOfAppended ==
    ASSUME NEW B, NEW s \in Seq(B), NEW x \in B
    PROVE  H!Last(Append(s, x)) = x
  <1>1. Len(Append(s, x)) = Len(s) + 1 /\ Append(s, x)[Len(s) + 1] = x
    BY LastIsReplaced
  <1> QED BY <1>1 DEF H!Last

(* Where the last hunk is. *)
LEMMA LastHunkIs ==
    ASSUME NEW W, NEW policy, NEW files, NEW done, NEW path, NEW hunks, NEW hunk,
           InHunk(W, policy, files, done, path, hunks, hunk)
    PROVE  /\ H!Last(H!Last(files).hunks) = hunk
           /\ Len(files) = Len(done) + 1
           /\ files[Len(files)] = [path |-> path, hunks |-> Append(hunks, hunk)]
           /\ done \in Seq(ReadFile(W)) /\ hunks \in Seq(ReadHunk(W))
           /\ [path |-> path, hunks |-> Append(hunks, hunk)] \in ReadFile(W)
  <1> DEFINE file == [path |-> path, hunks |-> Append(hunks, hunk)]
  <1>1. /\ done \in Seq(WholeFile(W, policy)) /\ path \in W
        /\ Append(hunks, hunk) \in Seq(ReadHunk(W))
        /\ hunks \in Seq(CountedHunk(W)) /\ hunk \in ReadHunk(W)
        /\ files = Append(done, file)
    BY DEF InHunk, EndsWith
  <1>2. WholeFile(W, policy) \subseteq ReadFile(W) /\ CountedHunk(W) \subseteq ReadHunk(W)
    BY DEF WholeFile, CountedHunk
  <1>3. done \in Seq(ReadFile(W)) /\ hunks \in Seq(ReadHunk(W))
    BY <1>1, <1>2, SeqMonotonic
  <1>4. file \in ReadFile(W) /\ file.hunks = Append(hunks, hunk)
    BY <1>1 DEF ReadFile
  <1> HIDE DEF file
  <1>5. H!Last(Append(hunks, hunk)) = hunk
    BY <1>1, <1>3, LastOfAppended
  <1>6. H!Last(files) = file
    BY <1>1, <1>3, <1>4, LastOfAppended
  <1>7. Len(files) = Len(done) + 1 /\ files[Len(done) + 1] = file
    BY <1>1, <1>3, <1>4, LastIsReplaced
  <1> QED BY <1>3, <1>4, <1>5, <1>6, <1>7 DEF file

(* When nothing is left unfinished, every file is whole. *)
LEMMA FinishedIsWhole ==
    ASSUME NEW W, NEW policy, NEW p, NEW diff, HasRead(W, policy, p, diff),
           p.state \in {"top", "body"}, ~H!Unfinished(p)
    PROVE  p.files \in Seq(WholeFile(W, policy))
  <1>1. CASE p.state = "top"
    BY <1>1 DEF HasRead
  <1>2. CASE p.state = "body"
    <2>1. PICK done, path, hunks, hunk : InHunk(W, policy, p.files, done, path, hunks, hunk)
      BY <1>2 DEF HasRead
    <2>2. H!Last(H!Last(p.files).hunks) = hunk
      <3> DEFINE files == p.files
      <3>1. InHunk(W, policy, files, done, path, hunks, hunk)
        BY <2>1
      <3> HIDE DEF files
      <3>2. H!Last(H!Last(files).hunks) = hunk
        BY <3>1, LastHunkIs
      <3> QED BY <3>2 DEF files
    <2>3. H!CountsHold(hunk)
      BY <1>2, <2>2 DEF H!Unfinished
    <2> DEFINE more == Append(hunks, hunk)
               file == [path |-> path, hunks |-> more]
    <2>4. /\ done \in Seq(WholeFile(W, policy)) /\ path \in W /\ path \in policy.allowed
          /\ more \in Seq(ReadHunk(W))
          /\ hunks \in Seq(CountedHunk(W)) /\ hunk \in ReadHunk(W)
          /\ p.files = Append(done, file)
      BY <2>1 DEF InHunk, EndsWith
    <2>5. hunk \in CountedHunk(W)
      BY <2>3, <2>4 DEF CountedHunk
    <2>6. more \in Seq(CountedHunk(W))
      BY <2>4, <2>5, AppendProperties
    <2> HIDE DEF more
    <2>7. file \in WholeFile(W, policy)
      BY <2>4, <2>6 DEF WholeFile, ReadFile
    <2> HIDE DEF file
    <2> QED BY <2>4, <2>7, AppendProperties
  <1> QED BY <1>1, <1>2

(* A refused diff has no files that could be wrong. *)
LEMMA RefusedIsRead ==
    ASSUME NEW W, AreWords(W), NEW policy, NEW diff
    PROVE  HasRead(W, policy, H!Refused, diff)
  <1>1. H!Nothing \in ParseState(W)
    BY EmptySeq DEF H!Nothing, ParseState, AreWords
  <1>2. H!Refused \in ParseState(W) /\ H!Refused.state = "refused"
    <2> DEFINE p == H!Nothing
    <2>1. H!Refused = [p EXCEPT !.state = "refused"]
      BY DEF H!Refused
    <2> HIDE DEF p
    <2> QED BY <1>1, <2>1 DEF ParseState, p
  <1> QED BY <1>2 DEF HasRead

(* The text of a header has three words, or four. *)
LEMMA HeaderTextIs ==
    ASSUME NEW W, AreWords(W), NEW line \in InputLine(W), line.kind \in {"-", "+"},
           line.text[1] \in {"--", "++"}
    PROVE  /\ line = [kind |-> line.kind, text |-> line.text]
           /\ line.text \in HeaderText(W) \/ line.text \in FollowedText(W)
  <1>1. line \in DiffLine(FileText(W))
    BY DEF InputLine, HunkLine, Noise
  <1>2. line.text \in FileText(W) /\ line = [kind |-> line.kind, text |-> line.text]
    BY <1>1 DEF DiffLine
  <1>3. ASSUME NEW w \in W, line.text = <<w>> PROVE FALSE
    <2>1. <<w>>[1] = w
      OBVIOUS
    <2>2. w \in {"--", "++"}
      BY <1>3, <2>1
    <2> QED BY <2>2 DEF AreWords
  <1> QED BY <1>2, <1>3 DEF FileText

(* The third word is a path, and a header of three is what Render writes. *)
LEMMA HeaderIs ==
    ASSUME NEW W, AreWords(W), NEW line \in InputLine(W), line.kind \in {"-", "+"},
           line.text[1] \in {"--", "++"}
    PROVE  /\ line.text[3] \in W
           /\ Len(line.text) = 3 => line = Line(line.kind, <<line.text[1], line.text[2], line.text[3]>>)
  <1> DEFINE text == line.text
  <1>1. text \in HeaderText(W) \/ text \in FollowedText(W)
    BY HeaderTextIs
  <1>2. line = Line(line.kind, text)
    BY HeaderTextIs DEF Line
  <1> HIDE DEF text
  <1>3. CASE text \in HeaderText(W)
    <2>1. text = <<text[1], text[2], text[3]>> /\ text[3] \in W
      BY <1>3 DEF HeaderText
    <2> QED BY <1>2, <2>1 DEF text
  <1>4. CASE text \in FollowedText(W)
    <2>1. text = <<text[1], text[2], text[3], text[4]>> /\ text[3] \in W
      BY <1>4 DEF FollowedText
    <2>2. Len(text) = 4
      BY <2>1
    <2> QED BY <2>1, <2>2 DEF text
  <1> QED BY <1>1, <1>3, <1>4

(* A header of a file is what Render writes. *)
LEMMA OldHeaderIs ==
    ASSUME NEW W, AreWords(W), NEW line \in InputLine(W), H!OldHeader(line), Len(line.text) = 3
    PROVE  /\ line.text[3] \in W /\ line.kind = "-"
           /\ line.text[2] = "a/" => line = Line("-", <<"--", "a/", line.text[3]>>)
  <1>1. line.kind = "-" /\ line.text[1] = "--"
    BY DEF H!OldHeader
  <1>2. line.text[3] \in W /\ line = Line(line.kind, <<line.text[1], line.text[2], line.text[3]>>)
    BY <1>1, HeaderIs
  <1> QED BY <1>1, <1>2

(* Nor is the other one anything else. *)
LEMMA NewHeaderIs ==
    ASSUME NEW W, AreWords(W), NEW line \in InputLine(W), H!NewHeader(line), Len(line.text) = 3
    PROVE  /\ line.text[3] \in W /\ line.kind = "+"
           /\ line.text[2] = "b/" => line = Line("+", <<"++", "b/", line.text[3]>>)
  <1>1. line.kind = "+" /\ line.text[1] = "++"
    BY DEF H!NewHeader
  <1>2. line.text[3] \in W /\ line = Line(line.kind, <<line.text[1], line.text[2], line.text[3]>>)
    BY <1>1, HeaderIs
  <1> QED BY <1>1, <1>2

(* --- *)
LEMMA FileIsStarted ==
    ASSUME NEW W, AreWords(W), NEW policy, NEW diff \in Seq(InputLine(W)), NEW line \in InputLine(W),
           NEW p, HasRead(W, policy, p, diff), p.state # "refused", H!OldHeader(line),
           Len(line.text) = 3
    PROVE  HasRead(W, policy, H!StartFile(p, line), Append(diff, line))
  <1> DEFINE longer == Append(diff, line)
             q == [p EXCEPT !.state = "old", !.old = line.text[3]]
  <1>1. CASE H!Unfinished(p) \/ line.text[2] # "a/"
    BY <1>1, RefusedIsRead DEF H!StartFile
  <1>2. CASE ~H!Unfinished(p) /\ line.text[2] = "a/"
    <2>1. H!StartFile(p, line) = q
      BY <1>2 DEF H!StartFile, H!PathOf
    <2>2. p \in ParseState(W) /\ p.state \in {"top", "body"}
      BY <1>2 DEF HasRead, ParseState, H!Unfinished
    <2>3. p.files \in Seq(WholeFile(W, policy)) /\ Significant(diff) = Render(p.files)
      <3>1. Significant(diff) = Render(p.files)
        BY <2>2 DEF HasRead
      <3> QED BY <1>2, <2>2, <3>1, FinishedIsWhole
    <2>4. line.text[3] \in W /\ line.kind = "-" /\ line = Line("-", <<"--", "a/", line.text[3]>>)
      BY <1>2, OldHeaderIs
    <2>5. Significant(longer) = Append(Significant(diff), line)
      BY <2>4, NextIsSignificant
    <2>6. q \in ParseState(W) /\ q.state = "old" /\ q.files = p.files /\ q.old = line.text[3]
      BY <2>2, <2>4 DEF ParseState
    <2> HIDE DEF q, longer
    <2>7. Significant(longer) = Append(Render(q.files), Line("-", <<"--", "a/", q.old>>))
      BY <2>3, <2>4, <2>5, <2>6
    <2>8. HasRead(W, policy, q, longer)
      BY <2>3, <2>6, <2>7 DEF HasRead
    <2> QED BY <2>1, <2>8 DEF longer
  <1> QED BY <1>1, <1>2

(* +++ *)
LEMMA FileIsNamed ==
    ASSUME NEW W, AreWords(W), NEW policy, NEW diff \in Seq(InputLine(W)), NEW line \in InputLine(W),
           NEW p, HasRead(W, policy, p, diff), p.state = "old", H!NewHeader(line),
           Len(line.text) = 3
    PROVE  HasRead(W, policy, H!NameFile(p, line, policy), Append(diff, line))
  <1> DEFINE longer == Append(diff, line)
             file == [path |-> p.old, hunks |-> <<>>]
             files == p.files
             more == Append(files, file)
             q == [p EXCEPT !.state = "file", !.files = Append(@, file)]
             bad == line.text[2] # "b/" \/ line.text[3] # p.old \/ p.old \notin policy.allowed
  <1>1. CASE bad
    BY <1>1, RefusedIsRead DEF H!NameFile, H!PathOf
  <1>2. CASE ~bad
    <2>1. H!NameFile(p, line, policy) = q
      BY <1>2 DEF H!NameFile, H!PathOf
    <2>2. /\ p \in ParseState(W) /\ p.old \in W /\ files \in Seq(WholeFile(W, policy))
          /\ Significant(diff) = Append(Render(files), Line("-", <<"--", "a/", p.old>>))
      BY DEF HasRead, ParseState
    <2>3. line = Line("+", <<"++", "b/", p.old>>) /\ line.kind = "+"
      BY <1>2, NewHeaderIs
    <2>4. Significant(longer) = Append(Significant(diff), line)
      BY <2>3, NextIsSignificant
    <2>5. <<>> \in Seq(ReadHunk(W)) /\ files \in Seq(ReadFile(W))
      <3>1. WholeFile(W, policy) \subseteq ReadFile(W)
        BY DEF WholeFile
      <3> QED BY <2>2, <3>1, EmptySeq, SeqMonotonic
    <2>6. file \in ReadFile(W) /\ RenderFile(file) = Headers(p.old) \o <<>>
      BY <2>2, <2>5, FilesAreLines, NoHunks
    <2>7. more \in Seq(ReadFile(W))
      <3> HIDE DEF file, files
      <3> QED BY <2>5, <2>6, AppendProperties
    <2>8. EndsWith(W, policy, more, files, p.old, <<>>)
      BY <1>2, <2>2, <2>5 DEF EndsWith
    <2>9. q \in ParseState(W) /\ q.state = "file" /\ q.files = more
      <3>1. q = [p EXCEPT !.state = "file", !.files = more]
        OBVIOUS
      <3> HIDE DEF q, more
      <3> QED BY <2>2, <2>7, <3>1 DEF ParseState
    <2>10. Significant(longer) = Render(more)
      <3> DEFINE a == Line("-", <<"--", "a/", p.old>>)
                 b == Line("+", <<"++", "b/", p.old>>)
                 B == InputLine(W)
                 r == Render(files)
      <3>1. a \in B /\ b \in B /\ Headers(p.old) \in Seq(B)
        <4>1. a \in DiffLine(FileText(W)) /\ b \in DiffLine(FileText(W)) /\ Headers(p.old) \in Seq(B)
          BY <2>2, HeadersAreLines
        <4> HIDE DEF a, b
        <4> QED BY <4>1 DEF InputLine
      <3>2. r \in Seq(B)
        BY <2>5, RenderedFiles
      <3>3. Headers(p.old) \o <<>> = Headers(p.old)
        BY <3>1, ConcatEmptySeq
      <3>4. Headers(p.old) = <<a, b>>
        BY DEF Headers
      <3>5. Render(more) = r \o <<a, b>>
        BY <2>5, <2>6, <3>3, <3>4, NextFile
      <3>6. Significant(longer) = Append(Append(r, a), b)
        BY <2>2, <2>3, <2>4
      <3> HIDE DEF a, b, B, r
      <3>7. r \o Append(<<a>>, b) = Append(r \o <<a>>, b)
        <4>1. <<a>> \in Seq(B)
          BY <3>1
        <4> QED BY <3>1, <3>2, <4>1, ConcatenationsAppend
      <3>8. Append(r, a) = r \o <<a>>
        BY <3>1, <3>2, AppendIsConcat
      <3>9. Append(<<a>>, b) = <<a, b>>
        BY <3>1, AppendedAre
      <3> QED BY <3>5, <3>6, <3>7, <3>8, <3>9
    <2> HIDE DEF q, longer, more, file
    <2>11. HasRead(W, policy, q, longer)
      <3>1. \E done, path : EndsWith(W, policy, q.files, done, path, <<>>)
        BY <2>8, <2>9
      <3> QED BY <2>9, <2>10, <3>1 DEF HasRead
    <2> QED BY <2>1, <2>11 DEF longer
  <1> HIDE DEF bad
  <1> QED BY <1>1, <1>2

(* @@, where the file before it has hunks or none. *)
LEMMA HunkIsAdded ==
    ASSUME NEW W, AreWords(W), NEW policy, NEW diff \in Seq(InputLine(W)), NEW line \in InputLine(W),
           NEW p, HasRead(W, policy, p, diff), p.state # "old", line.kind = "@@"
    PROVE  HasRead(W, policy, H!AddHunk(p, line), Append(diff, line))
  <1> DEFINE longer == Append(diff, line)
             hunk == [old |-> line.old, new |-> line.new, lines |-> <<>>]
             files == p.files
             n == Len(files)
             q == [p EXCEPT !.state = "body", !.files[n].hunks = Append(@, hunk)]
             good == p.state = "file" \/ (p.state = "body" /\ ~H!Unfinished(p))
  <1>1. CASE ~good
    BY <1>1, RefusedIsRead DEF H!AddHunk
  <1>2. CASE good
    <2>1. H!AddHunk(p, line) = q
      BY <1>2 DEF H!AddHunk
    <2>2. line \in HunkLine /\ line.old \in Spans /\ line.new \in Spans
      <3>1. line \in HunkLine
        BY DEF InputLine, DiffLine, Noise
      <3> QED BY <3>1 DEF HunkLine
    <2>3. line = [kind |-> "@@", old |-> line.old, new |-> line.new]
      BY <2>2 DEF HunkLine
    <2>4. p \in ParseState(W) /\ Significant(diff) = Render(files)
      BY <1>2 DEF HasRead
    <2>5. Significant(longer) = Append(Significant(diff), line)
      BY NextIsSignificant
    <2>6. \E done, path, hunks : /\ EndsWith(W, policy, files, done, path, hunks)
                                 /\ hunks \in Seq(CountedHunk(W))
      <3>1. CASE p.state = "file"
        <4>1. <<>> \in Seq(CountedHunk(W))
          BY EmptySeq
        <4> QED BY <3>1, <4>1 DEF HasRead
      <3>2. CASE p.state = "body" /\ ~H!Unfinished(p)
        <4>1. PICK done, path, hunks, last : InHunk(W, policy, files, done, path, hunks, last)
          BY <3>2 DEF HasRead
        <4>2. H!Last(H!Last(files).hunks) = last
          <5> DEFINE fs == p.files
          <5>1. InHunk(W, policy, fs, done, path, hunks, last)
            BY <4>1
          <5> HIDE DEF fs
          <5>2. H!Last(H!Last(fs).hunks) = last
            BY ONLY <5>1, LastHunkIs
          <5> QED BY <5>2 DEF fs
        <4>3. H!CountsHold(last)
          BY <3>2, <4>2 DEF H!Unfinished, files
        <4>4. hunks \in Seq(CountedHunk(W)) /\ last \in CountedHunk(W)
          BY <4>1, <4>3 DEF InHunk, CountedHunk
        <4>5. Append(hunks, last) \in Seq(CountedHunk(W))
          BY <4>4, AppendProperties
        <4> QED BY <4>1, <4>5 DEF InHunk
      <3> QED BY <1>2, <3>1, <3>2
    <2>7. PICK done, path, hunks : /\ EndsWith(W, policy, files, done, path, hunks)
                                   /\ hunks \in Seq(CountedHunk(W))
      BY <2>6
    <2> DEFINE more == Append(hunks, hunk)
               file == [path |-> path, hunks |-> hunks]
               grown == [path |-> path, hunks |-> more]
               all == Append(done, grown)
    <2>8. /\ done \in Seq(WholeFile(W, policy)) /\ path \in W /\ path \in policy.allowed
          /\ hunks \in Seq(ReadHunk(W)) /\ files = Append(done, file)
      BY <2>7 DEF EndsWith
    <2>9. hunk \in ReadHunk(W) /\ RenderHunks(more) = Append(RenderHunks(hunks), line)
      BY <2>2, <2>3, <2>8, HunkBegins
    <2>10. more \in Seq(ReadHunk(W))
      <3> HIDE DEF hunk
      <3> QED BY <2>8, <2>9, AppendProperties
    <2>11. done \in Seq(ReadFile(W))
      <3>1. WholeFile(W, policy) \subseteq ReadFile(W)
        BY DEF WholeFile
      <3> QED BY <2>8, <3>1, SeqMonotonic
    <2>12. file \in ReadFile(W) /\ grown \in ReadFile(W)
      <3> HIDE DEF more
      <3> QED BY <2>8, <2>10 DEF ReadFile
    <2>13. Render(all) = Append(Render(files), line)
      <3> HIDE DEF more
      <3> QED BY <2>8, <2>9, <2>10, <2>11, LastFileGrows, SMTT(60)
    <2>14. /\ n = Len(done) + 1 /\ files[n] = file /\ [files EXCEPT ![n] = grown] = all
           /\ all \in Seq(ReadFile(W))
      <3> HIDE DEF file, grown, files
      <3>1. n = Len(done) + 1
        BY <2>8, <2>11, <2>12, LastIsReplaced
      <3>2. files[n] = file /\ [files EXCEPT ![n] = grown] = all
        BY <2>8, <2>11, <2>12, <3>1, LastIsReplaced
      <3>3. all \in Seq(ReadFile(W))
        BY <2>11, <2>12, AppendProperties
      <3> QED BY <3>1, <3>2, <3>3
    <2>15. q = [p EXCEPT !.state = "body", !.files = all]
      <3>1. [files[n] EXCEPT !.hunks = Append(@, hunk)] = grown
        <4> DEFINE g == [file EXCEPT !.hunks = more]
        <4>1. g \in ReadFile(W) /\ g.path = path /\ g.hunks = more
          <5>1. file \in ReadFile(W) /\ file.path = path /\ more \in Seq(ReadHunk(W))
            BY <2>10, <2>12
          <5> HIDE DEF file, more
          <5> QED BY <5>1 DEF ReadFile
        <4>2. \A r \in ReadFile(W) : r = [path |-> r.path, hunks |-> r.hunks]
          BY DEF ReadFile
        <4> HIDE DEF g
        <4>3. g = grown
          BY <4>1, <4>2
        <4>4. [files[n] EXCEPT !.hunks = Append(@, hunk)] = g
          BY <2>14 DEF g
        <4> QED BY <4>3, <4>4
      <3>2. q = [p EXCEPT !.state = "body", !.files =
                   [files EXCEPT ![n] = [files[n] EXCEPT !.hunks = Append(@, hunk)]]]
        BY Zenon
      <3> QED BY <2>14, <3>1, <3>2, Zenon
    <2>16. q \in ParseState(W) /\ q.state = "body" /\ q.files = all
      <3> HIDE DEF q, all
      <3> QED BY <2>4, <2>14, <2>15 DEF ParseState
    <2>17. InHunk(W, policy, all, done, path, hunks, hunk)
      BY <2>7, <2>8, <2>9, <2>10 DEF InHunk, EndsWith
    <2> HIDE DEF q, longer, all, hunk, files
    <2>18. HasRead(W, policy, q, longer)
      <3>1. \E d, x, hs, h : InHunk(W, policy, q.files, d, x, hs, h)
        BY <2>16, <2>17
      <3>2. Significant(longer) = Render(q.files)
        BY <2>4, <2>5, <2>13, <2>16
      <3> QED BY <2>16, <3>1, <3>2 DEF HasRead
    <2> QED BY <2>1, <2>18 DEF longer
  <1> HIDE DEF good
  <1> QED BY <1>1, <1>2

(* The last hunk of the last file, with one line more. *)
Ending(done, path, hunks) == Append(done, [path |-> path, hunks |-> hunks])

LEMMA LinesGrow ==
    ASSUME NEW W, AreWords(W), NEW done \in Seq(ReadFile(W)), NEW path \in W,
           NEW hunks \in Seq(ReadHunk(W)), NEW hunk \in ReadHunk(W), NEW line \in DiffLine(FileText(W))
    PROVE  /\ Grown(hunk, line) \in ReadHunk(W)
           /\ [path |-> path, hunks |-> Append(hunks, Grown(hunk, line))] \in ReadFile(W)
           /\ Render(Ending(done, path, Append(hunks, Grown(hunk, line))))
                = Append(Render(Ending(done, path, Append(hunks, hunk))), line)
  <1> DEFINE grown == Grown(hunk, line)
             more == Append(hunks, hunk)
             most == Append(hunks, grown)
  <1>1. grown \in ReadHunk(W)
    BY NextOfHunk
  <1>2. RenderHunks(most) = Append(RenderHunks(more), line)
    BY LastHunkGrows
  <1>3. more \in Seq(ReadHunk(W)) /\ most \in Seq(ReadHunk(W))
    BY <1>1, AppendProperties
  <1>4. line \in InputLine(W)
    BY DEF InputLine
  <1> HIDE DEF more, most, grown
  <1>5. [path |-> path, hunks |-> most] \in ReadFile(W)
    BY <1>3 DEF ReadFile
  <1>6. Render(Append(done, [path |-> path, hunks |-> most]))
          = Append(Render(Append(done, [path |-> path, hunks |-> more])), line)
    BY <1>2, <1>3, <1>4, LastFileGrows, ZenonT(60)
  <1> QED BY <1>1, <1>5, <1>6 DEF more, most, grown, Ending

(* This is where AddLine puts the line. *)
Put(files, line) ==
    [files EXCEPT ![Len(files)] = [files[Len(files)] EXCEPT !.hunks =
        [files[Len(files)].hunks EXCEPT ![Len(files[Len(files)].hunks)] =
            Grown(files[Len(files)].hunks[Len(files[Len(files)].hunks)], line)]]]

LEMMA LinesArePut ==
    ASSUME NEW W, NEW done \in Seq(ReadFile(W)), NEW path \in W,
           NEW hunks \in Seq(ReadHunk(W)), NEW hunk \in ReadHunk(W),
           NEW line, Grown(hunk, line) \in ReadHunk(W)
    PROVE  Put(Ending(done, path, Append(hunks, hunk)), line)
             = Ending(done, path, Append(hunks, Grown(hunk, line)))
  <1> DEFINE grown == Grown(hunk, line)
             files == Ending(done, path, Append(hunks, hunk))
             n == Len(files)
             m == Len(files[n].hunks)
             more == Append(hunks, hunk)
             most == Append(hunks, grown)
             file == [path |-> path, hunks |-> more]
             longest == [path |-> path, hunks |-> most]
             g == [file EXCEPT !.hunks = most]
  <1>1. more \in Seq(ReadHunk(W)) /\ most \in Seq(ReadHunk(W))
    BY AppendProperties
  <1>2. Len(more) = Len(hunks) + 1 /\ more[Len(hunks) + 1] = hunk
        /\ [more EXCEPT ![Len(hunks) + 1] = grown] = most
    <2> DEFINE R == ReadHunk(W)
    <2>1. hunks \in Seq(R) /\ hunk \in R /\ grown \in R
      OBVIOUS
    <2> HIDE DEF R
    <2> QED BY ONLY <2>1, LastIsReplaced
  <1>3. file \in ReadFile(W) /\ longest \in ReadFile(W) /\ file.hunks = more /\ file.path = path
    <2> HIDE DEF more, most
    <2> QED BY <1>1 DEF ReadFile
  <1>4. files = Append(done, file)
    BY DEF Ending
  <1> HIDE DEF files
  <1>5. n = Len(done) + 1 /\ files[n] = file /\ [files EXCEPT ![n] = longest] = Append(done, longest)
    <2> HIDE DEF file, longest
    <2>1. n = Len(done) + 1
      BY <1>3, <1>4, LastIsReplaced
    <2> QED BY <1>3, <1>4, <2>1, LastIsReplaced
  <1>6. g \in ReadFile(W) /\ g.path = path /\ g.hunks = most
    <2> HIDE DEF file, most
    <2> QED BY <1>1, <1>3 DEF ReadFile
  <1>7. g = longest
    <2>1. \A r \in ReadFile(W) : r = [path |-> r.path, hunks |-> r.hunks]
      BY ONLY DEF ReadFile
    <2> HIDE DEF g, most
    <2> QED BY <1>6, <2>1
  <1> HIDE DEF file, longest, g, more, most
  <1>8. m = Len(hunks) + 1
    BY <1>2, <1>3, <1>5
  <1>9. [files[n].hunks EXCEPT ![m] = Grown(files[n].hunks[m], line)] = most
    BY <1>2, <1>3, <1>5, <1>8
  <1>10. [files[n] EXCEPT !.hunks = most] = longest
    BY <1>5, <1>7 DEF g
  <1>11. Put(files, line) = Append(done, longest)
    BY <1>5, <1>9, <1>10 DEF Put
  <1> QED BY <1>11 DEF longest, most, Ending, files, grown

(* A line of a hunk. *)
LEMMA LineIsAdded ==
    ASSUME NEW W, AreWords(W), NEW policy, NEW diff \in Seq(InputLine(W)), NEW line \in InputLine(W),
           NEW p, HasRead(W, policy, p, diff), p.state = "body", line.kind \in {" ", "-", "+"}
    PROVE  HasRead(W, policy, H!AddLine(p, line), Append(diff, line))
  <1> DEFINE longer == Append(diff, line)
             files == p.files
             n == Len(files)
             m == Len(files[n].hunks)
             q == [p EXCEPT !.files[n].hunks[m].lines = Append(@, line)]
  <1>1. H!AddLine(p, line) = q
    BY DEF H!AddLine
  <1>2. line \in DiffLine(FileText(W))
    BY DEF InputLine, HunkLine, Noise
  <1>3. p \in ParseState(W) /\ Significant(diff) = Render(files)
    BY DEF HasRead
  <1>4. Significant(longer) = Append(Significant(diff), line)
    BY NextIsSignificant
  <1>5. PICK done, path, hunks, hunk : InHunk(W, policy, files, done, path, hunks, hunk)
    BY DEF HasRead
  <1>6. q = [p EXCEPT !.files = Put(files, line)]
    BY Zenon DEF Grown, Put
  <1> HIDE DEF q, longer, files, n, m
  <1> DEFINE grown == Grown(hunk, line)
             most == Append(hunks, grown)
             all == Append(done, [path |-> path, hunks |-> most])
  <1>7. /\ done \in Seq(WholeFile(W, policy)) /\ path \in W /\ path \in policy.allowed
        /\ hunks \in Seq(CountedHunk(W)) /\ hunk \in ReadHunk(W)
        /\ files = Ending(done, path, Append(hunks, hunk))
    BY <1>5 DEF InHunk, EndsWith, Ending
  <1>8. done \in Seq(ReadFile(W)) /\ hunks \in Seq(ReadHunk(W))
    <2>1. WholeFile(W, policy) \subseteq ReadFile(W) /\ CountedHunk(W) \subseteq ReadHunk(W)
      BY DEF WholeFile, CountedHunk
    <2> QED BY <1>7, <2>1, SeqMonotonic
  <1>9. /\ grown \in ReadHunk(W) /\ [path |-> path, hunks |-> most] \in ReadFile(W)
        /\ Render(all) = Append(Render(files), line)
    <2>1. /\ Grown(hunk, line) \in ReadHunk(W)
          /\ [path |-> path, hunks |-> Append(hunks, Grown(hunk, line))] \in ReadFile(W)
          /\ Render(Ending(done, path, Append(hunks, Grown(hunk, line))))
               = Append(Render(Ending(done, path, Append(hunks, hunk))), line)
      BY ONLY AreWords(W), <1>2, <1>7, <1>8, LinesGrow
    <2> QED BY <1>7, <2>1, Zenon DEF Ending
  <1>10. q = [p EXCEPT !.files = all]
    <2>1. Put(Ending(done, path, Append(hunks, hunk)), line)
             = Ending(done, path, Append(hunks, Grown(hunk, line)))
      BY ONLY <1>7, <1>8, <1>9, LinesArePut
    <2> QED BY <1>6, <1>7, <2>1, Zenon DEF Ending
  <1> HIDE DEF grown
  <1>11. all \in Seq(ReadFile(W)) /\ most \in Seq(ReadHunk(W))
    BY <1>8, <1>9, AppendProperties
  <1>12. q \in ParseState(W) /\ q.state = "body" /\ q.files = all
    <2> HIDE DEF all
    <2> QED BY <1>3, <1>10, <1>11 DEF ParseState
  <1>13. InHunk(W, policy, all, done, path, hunks, grown)
    <2>1. EndsWith(W, policy, all, done, path, most)
      <3> HIDE DEF most
      <3> QED BY <1>7, <1>11 DEF EndsWith
    <2> QED BY <1>7, <1>9, <2>1 DEF InHunk
  <1> HIDE DEF all
  <1>14. HasRead(W, policy, q, longer)
    <2>1. \E d, x, hs, h : InHunk(W, policy, q.files, d, x, hs, h)
      BY <1>12, <1>13
    <2>2. Significant(longer) = Render(q.files)
      BY <1>3, <1>4, <1>9, <1>12
    <2> QED BY <1>12, <2>1, <2>2 DEF HasRead
  <1> QED BY <1>1, <1>14 DEF longer

(* diff: between files. *)
LEMMA FileIsEnded ==
    ASSUME NEW W, AreWords(W), NEW policy, NEW diff \in Seq(InputLine(W)), NEW line \in InputLine(W),
           NEW p, HasRead(W, policy, p, diff), p.state # "refused", line.kind = "diff",
           ~H!Unfinished(p)
    PROVE  HasRead(W, policy, [p EXCEPT !.state = "top"], Append(diff, line))
  <1> DEFINE longer == Append(diff, line)
             q == [p EXCEPT !.state = "top"]
  <1>1. p \in ParseState(W) /\ p.state \in {"top", "body"}
    BY DEF HasRead, ParseState, H!Unfinished
  <1>2. p.files \in Seq(WholeFile(W, policy)) /\ Significant(diff) = Render(p.files)
    <2>1. Significant(diff) = Render(p.files)
      BY <1>1 DEF HasRead
    <2> QED BY <1>1, <2>1, FinishedIsWhole
  <1>3. Significant(longer) = Significant(diff)
    BY NextIsSignificant
  <1>4. q \in ParseState(W) /\ q.state = "top" /\ q.files = p.files
    BY <1>1 DEF ParseState
  <1> HIDE DEF q, longer
  <1>5. HasRead(W, policy, q, longer)
    BY <1>2, <1>3, <1>4 DEF HasRead
  <1> QED BY <1>5 DEF q, longer

(* A line that says nothing. *)
LEMMA NoiseIsIgnored ==
    ASSUME NEW W, NEW policy, NEW diff \in Seq(InputLine(W)), NEW line \in InputLine(W),
           NEW p, HasRead(W, policy, p, diff), line.kind \notin {" ", "-", "+", "@@"}
    PROVE  HasRead(W, policy, p, Append(diff, line))
  <1>1. Significant(Append(diff, line)) = Significant(diff)
    BY NextIsSignificant
  <1> QED BY <1>1 DEF HasRead

(* Any line; a header with nothing after its path. *)
LEMMA NextHasRead ==
    ASSUME NEW W, AreWords(W), NEW policy, NEW diff \in Seq(InputLine(W)), NEW line \in InputLine(W),
           NEW p, HasRead(W, policy, p, diff),
           H!OldHeader(line) \/ (p.state = "old" /\ H!NewHeader(line)) => Len(line.text) = 3
    PROVE  HasRead(W, policy, H!Consume(p, line, policy), Append(diff, line))
  <1> DEFINE longer == Append(diff, line)
             q == H!Consume(p, line, policy)
             R(x) == HasRead(W, policy, x, longer)
  <1> HIDE DEF longer, R
  <1>1. CASE p.state = "refused"
    <2>1. q = p
      BY <1>1 DEF H!Consume
    <2>2. R(p)
      BY <1>1 DEF R, HasRead
    <2> HIDE DEF q
    <2> QED BY <2>1, <2>2 DEF R, q, longer
  <1>2. R(H!Refused)
    BY RefusedIsRead DEF R
  <1>3. CASE p.state = "old"
    <2>1. q = IF H!NewHeader(line) THEN H!NameFile(p, line, policy) ELSE H!Refused
      BY <1>3, Zenon DEF H!Consume
    <2>2. H!NewHeader(line) => R(H!NameFile(p, line, policy))
      BY <1>3, FileIsNamed DEF R, longer
    <2>3. R(q)
      <3> HIDE DEF q
      <3> QED BY <1>2, <2>1, <2>2
    <2> QED BY <2>3 DEF R, longer
  <1>4. CASE p.state \notin {"refused", "old"} /\ H!OldHeader(line)
    <2>1. q = H!StartFile(p, line)
      BY <1>4 DEF H!Consume
    <2>2. R(H!StartFile(p, line))
      BY <1>4, FileIsStarted DEF R, longer
    <2> HIDE DEF q
    <2> QED BY <2>1, <2>2 DEF R, q, longer
  <1>5. CASE p.state \notin {"refused", "old"} /\ ~H!OldHeader(line)
    <2>1. line.kind \in {" ", "-", "+", "@@", "diff", "index", "blank", "no newline"}
      BY DEF InputLine, DiffLine, HunkLine, Noise
    <2>2. CASE line.kind = "@@"
      <3>1. q = H!AddHunk(p, line)
        BY <1>5, <2>2 DEF H!Consume
      <3>2. R(H!AddHunk(p, line))
        BY <1>5, <2>2, HunkIsAdded DEF R, longer
      <3> HIDE DEF q
      <3> QED BY <3>1, <3>2 DEF R, q, longer
    <2>3. CASE line.kind = "diff"
      <3>1. q = IF H!Unfinished(p) THEN H!Refused ELSE [p EXCEPT !.state = "top"]
        BY <1>5, <2>3 DEF H!Consume
      <3>2. ~H!Unfinished(p) => R([p EXCEPT !.state = "top"])
        BY <1>5, <2>3, FileIsEnded DEF R, longer
      <3> HIDE DEF q
      <3> QED BY <1>2, <3>1, <3>2 DEF R, q, longer
    <2>4. CASE line.kind \in {"index", "blank", "no newline"}
      <3>1. q = p \/ q = H!Refused
        BY <1>5, <2>4 DEF H!Consume
      <3>2. R(p)
        BY <2>4, NoiseIsIgnored DEF R, longer
      <3> HIDE DEF q
      <3> QED BY <1>2, <3>1, <3>2 DEF R, q, longer
    <2>5. CASE line.kind \in {" ", "-", "+"}
      <3>1. q = IF p.state = "body" THEN H!AddLine(p, line) ELSE H!Refused
        BY <1>5, <2>5 DEF H!Consume
      <3>2. p.state = "body" => R(H!AddLine(p, line))
        BY <2>5, LineIsAdded DEF R, longer
      <3> HIDE DEF q
      <3> QED BY <1>2, <3>1, <3>2 DEF R, q, longer
    <2> QED BY <2>1, <2>2, <2>3, <2>4, <2>5
  <1> QED BY <1>1, <1>3, <1>4, <1>5

-----------------------------------------------------------------------------
(* What follows the path of a header is not read. *)

Words(line, other) == \A k \in 1..3 : other.text[k] = line.text[k]

(* A header that is cut is a header of three words. *)
LEMMA HeaderIsTrimmed ==
    ASSUME NEW W, AreWords(W), NEW line \in InputLine(W), line.kind \in {"-", "+"},
           line.text[1] \in {"--", "++"}
    PROVE  /\ Trimmed(line) \in InputLine(W) /\ Trimmed(line).kind = line.kind
           /\ Len(Trimmed(line).text) = 3 /\ Words(line, Trimmed(line))
  <1> DEFINE text == line.text
             cut == SubSeq(text, 1, 3)
             V == W \cup {"--", "++"}
  <1>1. text \in HeaderText(W) \/ text \in FollowedText(W)
    BY HeaderTextIs
  <1>2. line = [kind |-> line.kind, text |-> text]
    BY HeaderTextIs
  <1> HIDE DEF text
  <1>3. text[1] \in {"--", "++"} /\ text[2] \in W /\ text[3] \in W
    BY <1>1 DEF HeaderText, FollowedText
  <1>4. \A k \in 1..3 : text[k] \in V
    BY <1>3
  <1>5. cut \in Seq(V) /\ Len(cut) = 3 /\ \A k \in 1..3 : cut[k] = text[k]
    <2> HIDE DEF V
    <2> QED BY <1>4, SubSeqProperties
  <1> HIDE DEF cut, V
  <1>6. cut = <<text[1], text[2], text[3]>>
    BY <1>5
  <1>7. cut \in FileText(W)
    BY <1>3, <1>6 DEF FileText, HeaderText
  <1>8. Trimmed(line) = [kind |-> line.kind, text |-> cut]
    <2>1. Trimmed(line) = [line EXCEPT !.text = cut]
      BY DEF Trimmed, cut, text
    <2> QED BY <1>2, <2>1
  <1>9. [kind |-> line.kind, text |-> cut] \in DiffLine(FileText(W))
    BY <1>7 DEF DiffLine
  <1>10. Words(line, Trimmed(line))
    BY <1>5, <1>8 DEF Words, text
  <1> QED BY <1>5, <1>8, <1>9, <1>10 DEF InputLine

(* A header is consumed like another one with the same words. *)
LEMMA WordsAreConsumed ==
    ASSUME NEW p, NEW policy, NEW line, NEW other, other.kind = line.kind, Words(line, other),
           H!OldHeader(line) \/ (p.state \in {"old", "refused"} /\ H!NewHeader(line))
    PROVE  H!Consume(p, other, policy) = H!Consume(p, line, policy)
  <1>1. /\ other.text[1] = line.text[1] /\ other.text[2] = line.text[2]
        /\ H!PathOf(other) = H!PathOf(line)
    BY DEF Words, H!PathOf
  <1>2. /\ H!OldHeader(other) <=> H!OldHeader(line)
        /\ H!NewHeader(other) <=> H!NewHeader(line)
    BY <1>1 DEF H!OldHeader, H!NewHeader
  <1>3. H!StartFile(p, other) = H!StartFile(p, line)
    BY <1>1, Zenon DEF H!StartFile
  <1>4. H!NameFile(p, other, policy) = H!NameFile(p, line, policy)
    BY <1>1, Zenon DEF H!NameFile
  <1>5. CASE p.state = "refused"
    BY <1>5, Zenon DEF H!Consume
  <1>6. CASE p.state = "old"
    <2>1. ASSUME NEW l
          PROVE  H!Consume(p, l, policy)
                   = IF H!NewHeader(l) THEN H!NameFile(p, l, policy) ELSE H!Refused
      BY <1>6 DEF H!Consume
    <2> QED BY <1>2, <1>4, <2>1, Zenon
  <1>7. CASE p.state \notin {"old", "refused"}
    <2>1. H!OldHeader(line) /\ H!OldHeader(other)
      BY <1>2, <1>7
    <2>2. ASSUME NEW l, H!OldHeader(l) PROVE H!Consume(p, l, policy) = H!StartFile(p, l)
      BY <1>7, <2>2 DEF H!Consume
    <2> QED BY <1>3, <2>1, <2>2, Zenon
  <1> QED BY <1>5, <1>6, <1>7

\* The line x after the diff d, as it is in the diff that is cut.
NextCut(d, x) ==
    IF H!OldHeader(x) \/ (d # <<>> /\ H!OldHeader(d[Len(d)]) /\ H!NewHeader(x)) THEN Trimmed(x) ELSE x

(* A line that is cut is a line, of three words if it is a header. *)
LEMMA NextCutIs ==
    ASSUME NEW W, AreWords(W), NEW d, NEW x \in InputLine(W)
    PROVE  /\ NextCut(d, x) \in InputLine(W)
           /\ \/ NextCut(d, x) = x
              \/ /\ NextCut(d, x).kind = x.kind /\ Words(x, NextCut(d, x))
                 /\ Len(NextCut(d, x).text) = 3
                 /\ H!OldHeader(x) \/ (d # <<>> /\ H!OldHeader(d[Len(d)]) /\ H!NewHeader(x))
           /\ H!OldHeader(x) \/ (d # <<>> /\ H!OldHeader(d[Len(d)]) /\ H!NewHeader(x))
              => NextCut(d, x) = Trimmed(x) /\ Len(NextCut(d, x).text) = 3
  <1>1. H!OldHeader(x) \/ H!NewHeader(x) => x.kind \in {"-", "+"} /\ x.text[1] \in {"--", "++"}
    BY DEF H!OldHeader, H!NewHeader
  <1>2. H!OldHeader(x) \/ H!NewHeader(x) =>
          /\ Trimmed(x) \in InputLine(W) /\ Trimmed(x).kind = x.kind
          /\ Len(Trimmed(x).text) = 3 /\ Words(x, Trimmed(x))
    BY <1>1, HeaderIsTrimmed
  <1>3. CASE H!OldHeader(x) \/ (d # <<>> /\ H!OldHeader(d[Len(d)]) /\ H!NewHeader(x))
    <2>1. NextCut(d, x) = Trimmed(x)
      BY <1>3, Zenon DEF NextCut
    <2> QED BY <1>2, <1>3, <2>1, Zenon
  <1>4. CASE ~(H!OldHeader(x) \/ (d # <<>> /\ H!OldHeader(d[Len(d)]) /\ H!NewHeader(x)))
    <2>1. NextCut(d, x) = x
      BY <1>4, Zenon DEF NextCut
    <2> QED BY <1>4, <2>1, Zenon
  <1> QED BY <1>3, <1>4

(* A diff that is cut is a diff, line by line. *)
LEMMA CutIsDiff ==
    ASSUME NEW W, AreWords(W), NEW diff \in Seq(InputLine(W))
    PROVE  Cut(diff) \in Seq(InputLine(W)) /\ Len(Cut(diff)) = Len(diff)
  <1> DEFINE B == InputLine(W)
             n == Len(diff)
             f == [k \in 1..n |-> IF IsHeader(diff, k) THEN Trimmed(diff[k]) ELSE diff[k]]
  <1>1. n \in Nat /\ DOMAIN diff = 1..n /\ \A k \in 1..n : diff[k] \in B
    OBVIOUS
  <1>2. ASSUME NEW k \in 1..n, IsHeader(diff, k) PROVE Trimmed(diff[k]) \in B
    <2> DEFINE line == diff[k]
    <2>1. line \in B /\ line.kind \in {"-", "+"} /\ line.text[1] \in {"--", "++"}
      BY <1>1, <1>2 DEF IsHeader, H!OldHeader, H!NewHeader
    <2> HIDE DEF line
    <2>2. Trimmed(line) \in B
      BY <2>1, HeaderIsTrimmed
    <2> QED BY <2>2 DEF line
  <1> HIDE DEF B
  <1>3. f \in [1..n -> B]
    BY <1>1, <1>2
  <1>4. Cut(diff) = f
    BY <1>1, Zenon DEF Cut
  <1> HIDE DEF f, n
  <1>5. f \in Seq(B) /\ Len(f) = n
    BY <1>1, <1>3, FunctionsAreSequences
  <1> QED BY <1>4, <1>5 DEF B, n

(* One line more. *)
LEMMA NextIsCut ==
    ASSUME NEW W, AreWords(W), NEW d \in Seq(InputLine(W)), NEW x \in InputLine(W)
    PROVE  Cut(Append(d, x)) = Append(Cut(d), NextCut(d, x))
  <1> DEFINE B == InputLine(W)
             n == Len(d)
             longer == Append(d, x)
             y == NextCut(d, x)
  <1>1. /\ n \in Nat /\ longer \in Seq(B) /\ Len(longer) = n + 1 /\ DOMAIN longer = 1..n + 1
        /\ \A k \in 1..n : longer[k] = d[k]
        /\ longer[n + 1] = x /\ DOMAIN d = 1..n /\ (d # <<>> <=> n > 0)
    BY AppendProperties
  <1>2. Cut(d) \in Seq(B) /\ Len(Cut(d)) = n /\ Cut(longer) \in Seq(B) /\ Len(Cut(longer)) = n + 1
    BY <1>1, CutIsDiff
  <1>3. y \in B
    BY NextCutIs
  <1> HIDE DEF longer, y, B
  <1>4. ASSUME NEW k \in 1..n PROVE Cut(longer)[k] = Cut(d)[k]
    <2>1. k \in DOMAIN longer /\ k \in DOMAIN d /\ longer[k] = d[k]
      BY <1>1
    <2>2. k > 1 => longer[k - 1] = d[k - 1]
      BY <1>1
    <2>3. IsHeader(longer, k) <=> IsHeader(d, k)
      BY <2>1, <2>2, Zenon DEF IsHeader
    <2> QED BY <2>1, <2>3, Zenon DEF Cut
  <1>5. Cut(longer)[n + 1] = y
    <2>1. n + 1 \in DOMAIN longer /\ longer[n + 1] = x
      BY <1>1
    <2>2. n + 1 > 1 => longer[n + 1 - 1] = d[n]
      BY <1>1
    <2>3. n + 1 > 1 <=> d # <<>>
      BY <1>1
    <2>4. IsHeader(longer, n + 1) <=> H!OldHeader(x) \/ (d # <<>> /\ H!OldHeader(d[n]) /\ H!NewHeader(x))
      <3>1. CASE d # <<>>
        <4> DEFINE k == n + 1
                   before == longer[k - 1]
        <4>1. before = d[n] /\ k > 1 /\ longer[k] = x
          BY <2>1, <2>2, <2>3, <3>1
        <4>2. IsHeader(longer, k) <=> H!OldHeader(longer[k]) \/ (k > 1 /\ H!OldHeader(before) /\ H!NewHeader(longer[k]))
          BY DEF IsHeader
        <4> HIDE DEF n, k, before
        <4>3. IsHeader(longer, k) <=> H!OldHeader(x) \/ (H!OldHeader(d[n]) /\ H!NewHeader(x))
          BY <4>1, <4>2
        <4> QED BY <3>1, <4>3 DEF k
      <3>2. CASE d = <<>>
        <4>1. ~(n + 1 > 1)
          BY <2>3, <3>2
        <4> HIDE DEF n
        <4> QED BY <2>1, <3>2, <4>1, Zenon DEF IsHeader
      <3> QED BY <3>1, <3>2
    <2>5. Cut(longer)[n + 1] = IF IsHeader(longer, n + 1) THEN Trimmed(x) ELSE x
      BY <2>1, Zenon DEF Cut
    <2> QED BY <2>4, <2>5, Zenon DEF y, NextCut
  <1>6. Cut(longer) = Append(Cut(d), y)
    BY <1>2, <1>3, <1>4, <1>5, AppendedIs
  <1> QED BY <1>6 DEF longer, y

-----------------------------------------------------------------------------
(* What parse_patch returns. *)

(* After a file header of the old side the next line is to name the file. *)
LEMMA OldHeaderIsAwaited ==
    ASSUME NEW W, NEW p \in ParseState(W), NEW line, NEW policy
    PROVE  /\ H!OldHeader(line) => H!Consume(p, line, policy).state \in {"old", "refused"}
           /\ H!Consume(p, line, policy).state = "old" => H!OldHeader(line)
  <1> DEFINE q == H!Consume(p, line, policy)
  <1>1. H!Refused.state = "refused"
    BY DEF H!Refused, H!Nothing
  <1>2. \A s, x, y : /\ [p EXCEPT !.state = s].state = s
                    /\ [p EXCEPT !.state = s, !.old = x].state = s
                    /\ [p EXCEPT !.state = s, !.files = y].state = s
                    /\ [p EXCEPT !.files = y].state = p.state
    BY DEF ParseState
  <1>3. H!StartFile(p, line).state \in {"old", "refused"}
    BY <1>1, <1>2 DEF H!StartFile
  <1>4. H!NameFile(p, line, policy).state \in {"file", "refused"}
    BY <1>1, <1>2 DEF H!NameFile
  <1>5. H!AddHunk(p, line).state \in {"body", "refused"}
    BY <1>1, <1>2 DEF H!AddHunk
  <1>6. H!AddLine(p, line).state = p.state
    BY <1>2 DEF H!AddLine
  <1>7. H!OldHeader(line) => ~H!NewHeader(line)
    BY DEF H!OldHeader, H!NewHeader
  <1> HIDE DEF q
  <1>8. CASE p.state = "refused"
    <2>1. q = p
      BY <1>8 DEF H!Consume, q
    <2> QED BY <1>8, <2>1 DEF q
  <1>9. CASE p.state = "old"
    <2>1. q = IF H!NewHeader(line) THEN H!NameFile(p, line, policy) ELSE H!Refused
      BY <1>9, Zenon DEF H!Consume, q
    <2>2. q.state \in {"file", "refused"} /\ (H!OldHeader(line) => q.state = "refused")
      BY <1>1, <1>4, <1>7, <2>1
    <2> QED BY <2>2 DEF q
  <1>10. CASE p.state \notin {"refused", "old"} /\ H!OldHeader(line)
    <2>1. q = H!StartFile(p, line)
      BY <1>10 DEF H!Consume, q
    <2> QED BY <1>3, <1>10, <2>1 DEF q
  <1>11. CASE p.state \notin {"refused", "old"} /\ ~H!OldHeader(line)
    <2>1. \/ q = H!AddHunk(p, line) \/ q = H!AddLine(p, line)
          \/ q = H!Refused \/ q = p \/ q = [p EXCEPT !.state = "top"]
      BY <1>11 DEF H!Consume, q
    <2>2. [p EXCEPT !.state = "top"].state = "top"
      BY <1>2
    <2>3. q.state # "old"
      BY <1>1, <1>5, <1>6, <1>11, <2>1, <2>2
    <2> QED BY <1>11, <2>3 DEF q
  <1> QED BY <1>8, <1>9, <1>10, <1>11

IsReadCut(W, policy, d) ==
    /\ H!After(Cut(d), policy) = H!After(d, policy)
    /\ HasRead(W, policy, H!After(d, policy), Cut(d))
    /\ d = <<>> => H!After(d, policy).state # "old"
    /\ d # <<>> /\ H!OldHeader(d[Len(d)]) => H!After(d, policy).state \in {"old", "refused"}
    /\ d # <<>> /\ H!After(d, policy).state = "old" => H!OldHeader(d[Len(d)])

(* Any lines. *)
LEMMA DiffHasBeenRead ==
    ASSUME NEW W, AreWords(W), NEW policy, NEW diff \in Seq(InputLine(W))
    PROVE  IsReadCut(W, policy, diff)
  <1> DEFINE B == InputLine(W)
             T == {d \in Seq(B) : IsReadCut(W, policy, d)}
  <1>1. HasRead(W, policy, H!Nothing, <<>>) /\ H!Nothing.state = "top"
    <2>1. H!Nothing \in ParseState(W) /\ H!Nothing.state = "top" /\ H!Nothing.files = <<>>
      BY EmptySeq DEF H!Nothing, ParseState, AreWords
    <2>2. Significant(<<>>) = <<>>
      BY NothingIsSelected DEF Significant
    <2>3. <<>> \in Seq(WholeFile(W, policy))
      BY EmptySeq
    <2> DEFINE p == H!Nothing
    <2> HIDE DEF p
    <2>4. HasRead(W, policy, p, <<>>)
      BY <2>1, <2>2, <2>3, NoFiles DEF HasRead, p
    <2> QED BY <2>1, <2>4 DEF p
  <1>2. <<>> \in T
    <2>1. Cut(<<>>) = <<>>
      BY DEF Cut
    <2>2. IsReadCut(W, policy, <<>>)
      BY <1>1, <2>1, NothingIsRead, Zenon DEF IsReadCut
    <2> QED BY <2>2, EmptySeq
  <1>3. ASSUME NEW d \in Seq(B), NEW x \in B, d \in T PROVE Append(d, x) \in T
    <2> DEFINE p == H!After(d, policy)
               c == Cut(d)
               y == NextCut(d, x)
               q == H!Consume(p, x, policy)
               longer == Append(d, x)
    <2>1. IsReadCut(W, policy, d)
      BY <1>3
    <2>2. c \in Seq(B) /\ y \in B /\ Cut(longer) = Append(c, y)
      BY CutIsDiff, NextCutIs, NextIsCut
    <2>3. /\ longer \in Seq(B) /\ longer # <<>> /\ longer[Len(longer)] = x
      BY AppendProperties
    <2>4. H!After(longer, policy) = q
      BY NextIsRead
    <2>5. H!After(Append(c, y), policy) = H!Consume(H!After(c, policy), y, policy)
      <3> HIDE DEF c, y, B
      <3> QED BY <2>2, NextIsRead
    <2>6. H!Consume(p, y, policy) = q
      <3>1. \/ y = x
            \/ /\ y.kind = x.kind /\ Words(x, y)
               /\ H!OldHeader(x) \/ (d # <<>> /\ H!OldHeader(d[Len(d)]) /\ H!NewHeader(x))
        BY NextCutIs
      <3>2. d # <<>> /\ H!OldHeader(d[Len(d)]) => p.state \in {"old", "refused"}
        BY <2>1, Zenon DEF IsReadCut
      <3> HIDE DEF p, y
      <3>3. CASE y = x
        BY <3>3
      <3>4. CASE y # x
        <4>1. y.kind = x.kind /\ Words(x, y)
          BY <3>1, <3>4
        <4>2. H!OldHeader(x) \/ (p.state \in {"old", "refused"} /\ H!NewHeader(x))
          BY <3>1, <3>2, <3>4
        <4> QED BY <4>1, <4>2, WordsAreConsumed
      <3> QED BY <3>3, <3>4
    <2>7. H!After(Cut(longer), policy) = q
      BY <2>1, <2>2, <2>5, <2>6, Zenon DEF IsReadCut
    <2>8. H!OldHeader(y) \/ (p.state = "old" /\ H!NewHeader(y)) => Len(y.text) = 3
      <3>1. p.state = "old" => d # <<>> /\ H!OldHeader(d[Len(d)])
        BY <2>1, Zenon DEF IsReadCut
      <3>2. \/ y = x
            \/ y.kind = x.kind /\ Words(x, y)
        BY NextCutIs
      <3>3. H!OldHeader(x) \/ (d # <<>> /\ H!OldHeader(d[Len(d)]) /\ H!NewHeader(x)) => Len(y.text) = 3
        BY NextCutIs
      <3> HIDE DEF p, y
      <3>4. (H!OldHeader(y) => H!OldHeader(x)) /\ (H!NewHeader(y) => H!NewHeader(x))
        BY <3>2 DEF Words, H!OldHeader, H!NewHeader
      <3> QED BY <3>1, <3>3, <3>4
    <2>9. HasRead(W, policy, q, Cut(longer))
      <3>1. HasRead(W, policy, p, c)
        BY <2>1, Zenon DEF IsReadCut
      <3> HIDE DEF p, c, y, q
      <3>2. HasRead(W, policy, H!Consume(p, y, policy), Append(c, y))
        BY <2>2, <2>8, <3>1, NextHasRead
      <3> QED BY <2>2, <2>6, <3>2, Zenon
    <2>10. (H!OldHeader(x) => q.state \in {"old", "refused"}) /\ (q.state = "old" => H!OldHeader(x))
      <3>1. p \in ParseState(W)
        BY <2>1 DEF IsReadCut, HasRead
      <3> HIDE DEF p
      <3> QED BY <3>1, OldHeaderIsAwaited
    <2> HIDE DEF q, longer
    <2>11. IsReadCut(W, policy, longer)
      BY <2>3, <2>4, <2>7, <2>9, <2>10, Zenon DEF IsReadCut
    <2> QED BY <2>3, <2>11 DEF longer
  <1>4. Seq(B) \subseteq T
    <2> HIDE DEF B, T
    <2> QED BY <1>2, <1>3, SequencesAreReached
  <1> QED BY <1>4

(* The lines that files change can be counted. *)
LEMMA ChangedLinesAreCounted ==
    ASSUME NEW W, NEW files \in Seq(ReadFile(W))
    PROVE  H!ChangedLines(files) \in Nat
  <1> DEFINE B == DiffLine(FileText(W))
             lines(hunks) == [h \in DOMAIN hunks |-> hunks[h].lines]
             body(hunks) == H!FlattenSeq(lines(hunks))
             bodies == [k \in DOMAIN files |-> body(files[k].hunks)]
  <1>0. \A s : H!FlattenSeq(s) = FlattenSeq(s)
    BY DEF H!FlattenSeq, FlattenSeq
  <1>1. ASSUME NEW hunks \in Seq(ReadHunk(W)) PROVE body(hunks) \in Seq(B)
    <2> DEFINE n == Len(hunks)
               f == [h \in 1..n |-> hunks[h].lines]
    <2>1. n \in Nat /\ lines(hunks) = f
      OBVIOUS
    <2>2. f \in [1..n -> Seq(B)]
      <3> HIDE DEF B
      <3>1. \A hunk \in ReadHunk(W) : hunk.lines \in Seq(B)
        BY DEF ReadHunk, B
      <3>2. \A h \in 1..n : hunks[h] \in ReadHunk(W)
        OBVIOUS
      <3> QED BY <3>1, <3>2
    <2> HIDE DEF B, f
    <2>3. f \in Seq(Seq(B))
      BY <2>1, <2>2, FunctionsAreSequences
    <2>4. FlattenSeq(f) \in Seq(B)
      BY <2>3, FlattenedIsSequence
    <2> QED BY <1>0, <2>1, <2>4
  <1> HIDE DEF body
  <1>2. FlattenSeq(bodies) \in Seq(B)
    <2> DEFINE n == Len(files)
               f == [k \in 1..n |-> body(files[k].hunks)]
    <2>1. n \in Nat /\ bodies = f
      OBVIOUS
    <2>2. f \in [1..n -> Seq(B)]
      <3> HIDE DEF B
      <3>1. \A file \in ReadFile(W) : file.hunks \in Seq(ReadHunk(W))
        BY DEF ReadFile
      <3>2. \A k \in 1..n : files[k] \in ReadFile(W)
        OBVIOUS
      <3> QED BY <1>1, <3>1, <3>2
    <2> HIDE DEF B, f, bodies
    <2>3. f \in Seq(Seq(B))
      BY <2>1, <2>2, FunctionsAreSequences
    <2>4. FlattenSeq(f) \in Seq(B)
      BY <2>3, FlattenedIsSequence
    <2> QED BY <2>1, <2>4
  <1>3. H!Bodies(files) = FlattenSeq(bodies)
    BY <1>0 DEF H!Bodies, body
  <1> HIDE DEF B
  <1>4. H!LinesOf(H!Bodies(files), {"-", "+"}) \in Seq(B)
    BY <1>2, <1>3, SelectedAreLines
  <1> QED BY <1>4 DEF H!ChangedLines

(* The sides of a hunk are the lines of two of the three kinds. *)
LEMMA LinesAreCounted ==
    ASSUME NEW W, NEW hunk \in ReadHunk(W)
    PROVE  /\ Cardinality({k \in DOMAIN hunk.lines : hunk.lines[k].kind # "+"}) = Len(H!OldSide(hunk.lines))
           /\ Cardinality({k \in DOMAIN hunk.lines : hunk.lines[k].kind # "-"}) = Len(H!NewSide(hunk.lines))
  <1> DEFINE B == DiffLine(FileText(W))
             lines == hunk.lines
  <1>1. lines \in Seq(B)
    BY DEF ReadHunk
  <1>2. \A line \in B : line.kind \in {" ", "-", "+"}
    BY DEF DiffLine
  <1> HIDE DEF B
  <1>3. \A k \in DOMAIN lines : lines[k] \in B
    BY <1>1
  <1>4. /\ {k \in DOMAIN lines : lines[k].kind # "+"} = {k \in 1..Len(lines) : lines[k].kind \in {" ", "-"}}
        /\ {k \in DOMAIN lines : lines[k].kind # "-"} = {k \in 1..Len(lines) : lines[k].kind \in {" ", "+"}}
    <2>1. DOMAIN lines = 1..Len(lines)
      BY <1>1
    <2> HIDE DEF lines
    <2> QED BY <1>2, <1>3, <2>1
  <1> HIDE DEF lines
  <1>5. /\ Len(H!LinesOf(lines, {" ", "-"})) = Cardinality({k \in 1..Len(lines) : lines[k].kind \in {" ", "-"}})
        /\ Len(H!LinesOf(lines, {" ", "+"})) = Cardinality({k \in 1..Len(lines) : lines[k].kind \in {" ", "+"}})
    BY ONLY <1>1, SelectedAreCounted
  <1>6. /\ Cardinality({k \in DOMAIN lines : lines[k].kind # "+"}) = Len(H!OldSide(lines))
        /\ Cardinality({k \in DOMAIN lines : lines[k].kind # "-"}) = Len(H!NewSide(lines))
    BY ONLY <1>4, <1>5, Zenon DEF H!OldSide, H!NewSide
  <1> QED BY <1>6 DEF lines

(* The counts of a hunk that is read are those of its lines. *)
LEMMA CountsAreOfLines ==
    ASSUME NEW W, NEW hunk \in CountedHunk(W)
    PROVE  /\ hunk.old.count = Cardinality({k \in DOMAIN hunk.lines : hunk.lines[k].kind # "+"})
           /\ hunk.new.count = Cardinality({k \in DOMAIN hunk.lines : hunk.lines[k].kind # "-"})
  <1>1. hunk \in ReadHunk(W) /\ H!CountsHold(hunk)
    BY DEF CountedHunk
  <1>2. /\ Cardinality({k \in DOMAIN hunk.lines : hunk.lines[k].kind # "+"}) = Len(H!OldSide(hunk.lines))
        /\ Cardinality({k \in DOMAIN hunk.lines : hunk.lines[k].kind # "-"}) = Len(H!NewSide(hunk.lines))
    BY <1>1, LinesAreCounted
  <1> QED BY <1>1, <1>2, Zenon DEF H!CountsHold

(* Files that are read whole are a patch that the policy allows. *)
LEMMA WholeFilesAreWellFormed ==
    ASSUME NEW W, NEW policy, NEW files \in Seq(WholeFile(W, policy)),
           Len(files) <= policy.max_files, H!ChangedLines(files) <= policy.max_lines
    PROVE  WellFormed(files, policy)
  <1>1. ASSUME NEW k \in DOMAIN files
        PROVE  files[k].path \in policy.allowed /\ files[k].hunks \in Seq(CountedHunk(W))
    <2>1. files[k] \in WholeFile(W, policy)
      OBVIOUS
    <2> QED BY <2>1 DEF WholeFile
  <1>2. ASSUME NEW hunk \in Hunks(files) PROVE hunk \in CountedHunk(W)
    <2>1. PICK k \in DOMAIN files : hunk \in ToSet(files[k].hunks)
      BY DEF Hunks
    <2>2. PICK h \in DOMAIN files[k].hunks : hunk = files[k].hunks[h]
      BY <2>1 DEF ToSet
    <2> DEFINE hunks == files[k].hunks
    <2>3. hunks \in Seq(CountedHunk(W)) /\ h \in DOMAIN hunks /\ hunk = hunks[h]
      BY <1>1, <2>2
    <2> HIDE DEF hunks
    <2> QED BY <2>3
  <1> QED BY <1>1, <1>2, CountsAreOfLines DEF WellFormed

(* What parse_patch returns is the diff, whole but for what is cut, and well formed. *)
LEMMA ReadWholeOrRefused ==
    ASSUME NEW W, AreWords(W), NEW diff \in Seq(InputLine(W)), NEW policy,
           policy.max_files \in Int, policy.max_lines \in Int,
           H!parse_patch(diff, policy) # H!Refused
    PROVE  /\ Render(H!parse_patch(diff, policy).files) = Significant(Cut(diff))
           /\ WellFormed(H!parse_patch(diff, policy).files, policy)
  <1> DEFINE p == H!After(diff, policy)
             files == p.files
             q == [p EXCEPT !.state = "parsed"]
  <1>1. HasRead(W, policy, p, Cut(diff))
    BY DiffHasBeenRead, Zenon DEF IsReadCut
  <1>2. /\ p.state # "refused" /\ ~H!Unfinished(p)
        /\ ~(Len(files) > policy.max_files) /\ ~(H!ChangedLines(files) > policy.max_lines)
        /\ H!parse_patch(diff, policy) = q
    BY DEF H!parse_patch
  <1> HIDE DEF p
  <1>3. p \in ParseState(W)
    BY <1>1 DEF HasRead
  <1>4. p.state \in {"top", "body"}
    BY <1>2, <1>3 DEF ParseState, H!Unfinished
  <1>5. files \in Seq(WholeFile(W, policy)) /\ files \in Seq(ReadFile(W))
    BY <1>1, <1>2, <1>3, <1>4, FinishedIsWhole DEF ParseState
  <1>6. Render(files) = Significant(Cut(diff))
    BY <1>1, <1>4 DEF HasRead
  <1>7. q.files = files
    BY <1>3 DEF ParseState
  <1> HIDE DEF files, q
  <1>8. Len(files) \in Nat /\ H!ChangedLines(files) \in Nat
    BY <1>5, ChangedLinesAreCounted
  <1>9. WellFormed(files, policy)
    BY <1>2, <1>5, <1>8, WholeFilesAreWellFormed
  <1> QED BY <1>2, <1>6, <1>7, <1>9

-----------------------------------------------------------------------------
(* Patches that the policy allows, rendered and read. *)

(* Patches that are not refused: no line of them looks like a header, and  *)
(* every file has hunks.                                                   *)
PlainLine(W) == {line \in DiffLine(FileText(W)) : ~H!OldHeader(line)}
PlainHunk(W) == {hunk \in CountedHunk(W) : hunk.lines \in Seq(PlainLine(W))}
PlainFile(W, policy) ==
    {file \in ReadFile(W) :
        file.path \in policy.allowed /\ file.hunks \in Seq(PlainHunk(W)) /\ file.hunks # <<>>}

At(state, old, files) == [state |-> state, old |-> old, files |-> files]

(* A state that is read, by its parts. *)
LEMMA StateOfAt ==
    ASSUME NEW s, NEW o, NEW files
    PROVE  /\ At(s, o, files).state = s /\ At(s, o, files).old = o /\ At(s, o, files).files = files
  BY DEF At

(* The last file, its place and its hunks. *)
LEMMA EndingEnds ==
    ASSUME NEW W, NEW done \in Seq(ReadFile(W)), NEW path \in W, NEW hunks \in Seq(ReadHunk(W))
    PROVE  /\ Len(Ending(done, path, hunks)) = Len(done) + 1
           /\ Ending(done, path, hunks)[Len(done) + 1] = [path |-> path, hunks |-> hunks]
  <1> DEFINE file == [path |-> path, hunks |-> hunks]
             B == ReadFile(W)
  <1>1. file \in B /\ done \in Seq(B)
    BY DEF ReadFile
  <1> HIDE DEF file, B
  <1> QED BY <1>1, LastIsReplaced DEF file, Ending

(* The hunks of the last file. *)
LEMMA LastHunksAre ==
    ASSUME NEW W, NEW done \in Seq(ReadFile(W)), NEW path \in W, NEW hunks \in Seq(ReadHunk(W))
    PROVE  H!Last(Ending(done, path, hunks)).hunks = hunks
  <1> DEFINE file == [path |-> path, hunks |-> hunks]
             B == ReadFile(W)
  <1>1. file \in B /\ done \in Seq(B)
    BY DEF ReadFile
  <1>2. file.hunks = hunks
    OBVIOUS
  <1>3. Ending(done, path, hunks) = Append(done, file)
    BY DEF Ending
  <1> HIDE DEF file, B
  <1>4. H!Last(Append(done, file)) = file
    BY <1>1, LastOfAppended
  <1> QED BY <1>2, <1>3, <1>4

(* The last file, with other hunks. *)
LEMMA EndingIsReplaced ==
    ASSUME NEW W, NEW done \in Seq(ReadFile(W)), NEW path \in W, NEW hunks \in Seq(ReadHunk(W)),
           NEW more \in Seq(ReadHunk(W))
    PROVE  [Ending(done, path, hunks) EXCEPT ![Len(done) + 1] = [path |-> path, hunks |-> more]]
             = Ending(done, path, more)
  <1> DEFINE B == ReadFile(W)
             file == [path |-> path, hunks |-> hunks]
             other == [path |-> path, hunks |-> more]
  <1>1. done \in Seq(B) /\ file \in B /\ other \in B
    BY DEF ReadFile
  <1> HIDE DEF file, B, other
  <1>2. [Append(done, file) EXCEPT ![Len(done) + 1] = other] = Append(done, other)
    BY ONLY <1>1, LastIsReplaced
  <1> QED BY <1>2, Zenon DEF file, other, Ending

(* After a hunk with all its lines nothing is unfinished. *)
LEMMA UnfinishedAt ==
    ASSUME NEW W, NEW done \in Seq(ReadFile(W)), NEW path \in W, NEW hunks \in Seq(ReadHunk(W)),
           NEW hunk \in CountedHunk(W), NEW o
    PROVE  ~H!Unfinished(At("body", o, Ending(done, path, Append(hunks, hunk))))
  <1> DEFINE more == Append(hunks, hunk)
             files == Ending(done, path, more)
             p == At("body", o, files)
  <1>1. hunk \in ReadHunk(W) /\ H!CountsHold(hunk)
    BY DEF CountedHunk
  <1>2. more \in Seq(ReadHunk(W)) /\ H!Last(more) = hunk
    BY <1>1, LastOfAppended, AppendProperties
  <1> HIDE DEF more
  <1> HIDE DEF files, p
  <1>3. H!Last(files).hunks = more
    <2>1. done \in Seq(ReadFile(W)) /\ path \in W /\ more \in Seq(ReadHunk(W))
      BY <1>2
    <2>2. H!Last(Ending(done, path, more)).hunks = more
      BY ONLY <2>1, LastHunksAre
    <2> QED BY <2>2 DEF files
  <1>5. p.state = "body" /\ p.files = files
    BY DEF At, p
  <1>6. ~H!Unfinished(p)
    BY <1>1, <1>2, <1>3, <1>5 DEF H!Unfinished
  <1> QED BY <1>6 DEF p, files, more

-----------------------------------------------------------------------------
(* What Consume does with the lines that Render writes. *)
LEMMA PlainLineIsRead ==
    ASSUME NEW W, NEW policy, NEW done \in Seq(ReadFile(W)), NEW path \in W,
           NEW hunks \in Seq(ReadHunk(W)), NEW hunk \in ReadHunk(W), NEW line \in PlainLine(W), NEW o
    PROVE  H!Consume(At("body", o, Ending(done, path, Append(hunks, hunk))), line, policy)
             = At("body", o, Ending(done, path, Append(hunks, Grown(hunk, line))))
  <1> DEFINE files == Ending(done, path, Append(hunks, hunk))
             p == At("body", o, files)
             n == Len(files)
             m == Len(files[n].hunks)
  <1>1. line \in DiffLine(FileText(W)) /\ ~H!OldHeader(line) /\ line.kind \in {" ", "-", "+"}
    BY DEF PlainLine, DiffLine
  <1>2. Put(files, line) = Ending(done, path, Append(hunks, Grown(hunk, line)))
    <2>1. Grown(hunk, line) \in ReadHunk(W)
      BY <1>1, NextOfHunk
    <2> HIDE DEF files
    <2>2. Put(Ending(done, path, Append(hunks, hunk)), line) = Ending(done, path, Append(hunks, Grown(hunk, line)))
      BY ONLY <2>1, LinesArePut, done \in Seq(ReadFile(W)), path \in W, hunks \in Seq(ReadHunk(W)),
              hunk \in ReadHunk(W)
    <2> QED BY <2>2, Zenon DEF files
  <1> HIDE DEF files
  <1>3. p.state = "body" /\ p.files = files /\ \A x : [p EXCEPT !.files = x] = At("body", o, x)
    BY DEF At
  <1> HIDE DEF p
  <1>4. H!Consume(p, line, policy) = H!AddLine(p, line)
    BY <1>1, <1>3 DEF H!Consume
  <1>5. H!AddLine(p, line) = [p EXCEPT !.files = Put(p.files, line)]
    BY Zenon DEF H!AddLine, Grown, Put
  <1> QED BY <1>2, <1>3, <1>4, <1>5 DEF p, files

Begun(old, new) == [old |-> old, new |-> new, lines |-> <<>>]
HunkHeader(hunk) == [kind |-> "@@", old |-> hunk.old, new |-> hunk.new]

Named(p, t, x) == [p EXCEPT !.state = t, !.old = x]
Moved(p, t, x) == [p EXCEPT !.state = t, !.files = x]

(* StartFile changes two parts of a state. *)
LEMMA NamedIsAt ==
    ASSUME NEW s, NEW o, NEW files, NEW t, NEW x
    PROVE  Named(At(s, o, files), t, x) = At(t, x, files)
  <1> DEFINE r == Named(At(s, o, files), t, x)
             R == [state : {t}, old : {x}, files : {files}]
  <1>1. r \in R
    BY DEF At, Named
  <1>2. \A q \in R : q = At(t, x, files)
    BY ONLY DEF At
  <1> HIDE DEF r, R
  <1> QED BY <1>1, <1>2 DEF r

(* NameFile and AddHunk change two others. *)
LEMMA MovedIsAt ==
    ASSUME NEW s, NEW o, NEW files, NEW t, NEW x
    PROVE  Moved(At(s, o, files), t, x) = At(t, o, x)
  <1> DEFINE r == Moved(At(s, o, files), t, x)
             R == [state : {t}, old : {o}, files : {x}]
  <1>1. r \in R
    BY DEF At, Moved
  <1>2. \A q \in R : q = At(t, o, x)
    BY ONLY DEF At
  <1> HIDE DEF r, R
  <1> QED BY <1>1, <1>2 DEF r

(* @@: a hunk is begun. *)
LEMMA HunkHeaderIsRead ==
    ASSUME NEW W, NEW policy, NEW done \in Seq(ReadFile(W)), NEW path \in W,
           NEW hunks \in Seq(ReadHunk(W)), NEW hunk \in ReadHunk(W), NEW o, NEW s,
           \/ s = "file"
           \/ s = "body" /\ ~H!Unfinished(At(s, o, Ending(done, path, hunks)))
    PROVE  H!Consume(At(s, o, Ending(done, path, hunks)), HunkHeader(hunk), policy)
             = At("body", o, Ending(done, path, Append(hunks, Begun(hunk.old, hunk.new))))
  <1> DEFINE files == Ending(done, path, hunks)
             p == At(s, o, files)
             line == HunkHeader(hunk)
             new == Begun(hunk.old, hunk.new)
             n == Len(done) + 1
             more == Append(hunks, new)
             all == Ending(done, path, more)
  <1>1. /\ line.kind = "@@" /\ ~H!OldHeader(line)
        /\ [old |-> line.old, new |-> line.new, lines |-> <<>>] = new
    BY DEF HunkHeader, Begun, H!OldHeader
  <1>2. new \in ReadHunk(W)
    BY EmptySeq DEF Begun, ReadHunk
  <1>3. Len(files) = n /\ files[n] = [path |-> path, hunks |-> hunks]
    BY EndingEnds
  <1> HIDE DEF new, line
  <1>4. more \in Seq(ReadHunk(W))
    BY <1>2, AppendProperties
  <1> HIDE DEF more
  <1>5. [files EXCEPT ![n] = [path |-> path, hunks |-> more]] = all
    BY <1>4, EndingIsReplaced
  <1> HIDE DEF files, n, all
  <1>6. p.state = s /\ p.files = files
    BY DEF At
  <1>7. Moved(p, "body", all) = At("body", o, all)
    BY MovedIsAt
  <1>8. s \in {"file", "body"} /\ (s = "file" \/ ~H!Unfinished(p))
    BY DEF files
  <1> HIDE DEF p
  <1>9. H!Consume(p, line, policy) = H!AddHunk(p, line)
    BY <1>1, <1>6, <1>8 DEF H!Consume
  <1>10. H!AddHunk(p, line) = [p EXCEPT !.state = "body", !.files[Len(p.files)].hunks = Append(@, new)]
    BY <1>1, <1>6, <1>8 DEF H!AddHunk
  <1>11. H!AddHunk(p, line) = [p EXCEPT !.state = "body", !.files = [files EXCEPT ![n] =
                                  [files[n] EXCEPT !.hunks = Append(files[n].hunks, new)]]]
    BY <1>3, <1>6, <1>10, Zenon
  <1>12. [files[n] EXCEPT !.hunks = Append(files[n].hunks, new)] = [path |-> path, hunks |-> more]
    <2>1. files[n].hunks = hunks
      BY <1>3
    <2>2. Append(files[n].hunks, new) = more
      BY <2>1 DEF more
    <2>3. [files[n] EXCEPT !.hunks = Append(files[n].hunks, new)]
            = [[path |-> path, hunks |-> hunks] EXCEPT !.hunks = more]
      BY <1>3, <2>2, Zenon
    <2>4. [[path |-> path, hunks |-> hunks] EXCEPT !.hunks = more] = [path |-> path, hunks |-> more]
      OBVIOUS
    <2> QED BY <2>3, <2>4
  <1>13. H!AddHunk(p, line) = At("body", o, all)
    BY <1>5, <1>7, <1>11, <1>12, Zenon DEF Moved
  <1> QED BY <1>9, <1>13 DEF p, files, line, all, more, new

(* ---: a file is begun. *)
LEMMA OldHeaderIsRead ==
    ASSUME NEW W, AreWords(W), NEW policy, NEW files, NEW path \in W, NEW o, NEW s,
           s \in {"top", "body"}, ~H!Unfinished(At(s, o, files))
    PROVE  H!Consume(At(s, o, files), Line("-", <<"--", "a/", path>>), policy) = At("old", path, files)
  <1> DEFINE p == At(s, o, files)
             text == <<"--", "a/", path>>
             line == Line("-", text)
  <1>1. text[1] = "--" /\ text[2] = "a/" /\ text[3] = path
    OBVIOUS
  <1>2. line.kind = "-" /\ line.text = text
    BY DEF Line
  <1> HIDE DEF line, text
  <1>3. H!OldHeader(line)
    BY <1>1, <1>2 DEF H!OldHeader
  <1>4. p.state = s
    BY DEF At
  <1>5. Named(p, "old", path) = At("old", path, files)
    BY NamedIsAt
  <1>6. ~H!Unfinished(p)
    OBVIOUS
  <1> HIDE DEF p
  <1>7. H!Consume(p, line, policy) = H!StartFile(p, line)
    BY <1>3, <1>4 DEF H!Consume
  <1>8. H!StartFile(p, line) = Named(p, "old", path)
    BY <1>1, <1>2, <1>6, Zenon DEF H!StartFile, H!PathOf, Named
  <1> QED BY <1>5, <1>7, <1>8 DEF p, line, text

(* +++: it is named. *)
LEMMA NewHeaderIsRead ==
    ASSUME NEW W, AreWords(W), NEW policy, NEW files, NEW path \in W, path \in policy.allowed
    PROVE  H!Consume(At("old", path, files), Line("+", <<"++", "b/", path>>), policy)
             = At("file", path, Ending(files, path, <<>>))
  <1> DEFINE p == At("old", path, files)
             text == <<"++", "b/", path>>
             line == Line("+", text)
             all == Append(files, [path |-> path, hunks |-> <<>>])
  <1>1. text[1] = "++" /\ text[2] = "b/" /\ text[3] = path
    OBVIOUS
  <1>2. line.kind = "+" /\ line.text = text
    BY DEF Line
  <1> HIDE DEF line, text
  <1>3. H!NewHeader(line)
    BY <1>1, <1>2 DEF H!NewHeader
  <1>4. p.state = "old" /\ p.old = path /\ p.files = files
    BY DEF At
  <1> HIDE DEF all
  <1>5. Moved(p, "file", all) = At("file", path, all)
    BY MovedIsAt
  <1> HIDE DEF p
  <1>6. H!Consume(p, line, policy) = H!NameFile(p, line, policy)
    BY <1>3, <1>4 DEF H!Consume
  <1>7. H!NameFile(p, line, policy)
          = [p EXCEPT !.state = "file", !.files = Append(@, [path |-> p.old, hunks |-> <<>>])]
    BY <1>1, <1>2, <1>4 DEF H!NameFile, H!PathOf
  <1>8. H!NameFile(p, line, policy) = Moved(p, "file", all)
    BY <1>4, <1>7, Zenon DEF all, Moved
  <1> QED BY <1>5, <1>6, <1>8, Zenon DEF p, line, text, all, Ending

(* One line more, after others. *)
LEMMA ConcatenationIsRead ==
    ASSUME NEW B, NEW d \in Seq(B), NEW s \in Seq(B), NEW x \in B, NEW policy
    PROVE  H!After(d \o Append(s, x), policy) = H!Consume(H!After(d \o s, policy), x, policy)
  <1>1. d \o Append(s, x) = Append(d \o s, x)
    BY ConcatenationsAppend
  <1>2. d \o s \in Seq(B)
    BY ConcatProperties
  <1>3. H!After(Append(d \o s, x), policy) = H!Consume(H!After(d \o s, policy), x, policy)
    BY <1>2, NextIsRead
  <1> QED BY <1>1, <1>3

Regrouped(a, b, c, d) == a \o (b \o (c \o d)) = (a \o (b \o c)) \o d

(* Four sequences, joined in two orders. *)
LEMMA FourAreJoined ==
    ASSUME NEW B, NEW a \in Seq(B), NEW b \in Seq(B), NEW c \in Seq(B), NEW d \in Seq(B)
    PROVE  Regrouped(a, b, c, d)
  <1>1. b \o (c \o d) = (b \o c) \o d
    BY ConcatAssociative, SMTT(60)
  <1>2. b \o c \in Seq(B)
    BY ConcatProperties
  <1> DEFINE bc == b \o c
  <1> HIDE DEF bc
  <1>3. a \o (bc \o d) = (a \o bc) \o d
    BY <1>2, ConcatAssociative, SMTT(60) DEF bc
  <1> QED BY <1>1, <1>3 DEF bc, Regrouped

(* The lines of a hunk. *)
LEMMA PlainLinesAreRead ==
    ASSUME NEW W, NEW policy, NEW done \in Seq(ReadFile(W)), NEW path \in W,
           NEW hunks \in Seq(ReadHunk(W)), NEW old \in Spans, NEW new \in Spans, NEW o,
           NEW d \in Seq(InputLine(W)),
           H!After(d, policy) = At("body", o, Ending(done, path, Append(hunks, Begun(old, new)))),
           NEW lines \in Seq(PlainLine(W))
    PROVE  H!After(d \o lines, policy)
             = At("body", o, Ending(done, path, Append(hunks, [old |-> old, new |-> new, lines |-> lines])))
  <1> DEFINE B == InputLine(W)
             L == PlainLine(W)
             hunk(s) == [old |-> old, new |-> new, lines |-> s]
             files(s) == Ending(done, path, Append(hunks, hunk(s)))
             T == {s \in Seq(L) : H!After(d \o s, policy) = At("body", o, files(s))}
  <1>1. <<>> \in T
    <2>1. d \o <<>> = d
      OBVIOUS
    <2>2. hunk(<<>>) = Begun(old, new)
      BY DEF Begun
    <2>3. files(<<>>) = Ending(done, path, Append(hunks, Begun(old, new)))
      BY <2>2
    <2> HIDE DEF files
    <2> QED BY <2>1, <2>3, EmptySeq
  <1>2. L \subseteq B /\ L \subseteq DiffLine(FileText(W))
    BY DEF PlainLine, InputLine
  <1>3. ASSUME NEW s \in Seq(L), NEW x \in L, s \in T PROVE Append(s, x) \in T
    <2>1. H!After(d \o s, policy) = At("body", o, files(s))
      BY <1>3
    <2>2. s \in Seq(B) /\ x \in B
      BY <1>2, SeqMonotonic
    <2>3. H!After(d \o Append(s, x), policy) = H!Consume(At("body", o, files(s)), x, policy)
      <3> HIDE DEF files, B
      <3> QED BY <2>1, <2>2, ConcatenationIsRead DEF B
    <2>4. hunk(s) \in ReadHunk(W)
      <3>1. s \in Seq(DiffLine(FileText(W)))
        BY <1>2, SeqMonotonic
      <3> QED BY <3>1 DEF ReadHunk
    <2>5. Grown(hunk(s), x) = hunk(Append(s, x))
      <3> DEFINE t == Append(s, x)
      <3>1. Grown(hunk(s), x) = [hunk(s) EXCEPT !.lines = t]
        BY DEF Grown
      <3> HIDE DEF t
      <3>2. [hunk(s) EXCEPT !.lines = t] = hunk(t)
        OBVIOUS
      <3> QED BY <3>1, <3>2 DEF t
    <2> HIDE DEF hunk
    <2>6. H!Consume(At("body", o, files(s)), x, policy)
            = At("body", o, Ending(done, path, Append(hunks, Grown(hunk(s), x))))
      BY <2>4, PlainLineIsRead
    <2>7. Append(s, x) \in Seq(L)
      <3> HIDE DEF L
      <3> QED BY AppendProperties
    <2> QED BY <2>3, <2>5, <2>6, <2>7
  <1>4. Seq(L) \subseteq T
    <2> HIDE DEF L, T
    <2> QED BY <1>1, <1>3, SequencesAreReached
  <1> HIDE DEF hunk
  <1>5. lines \in T
    BY <1>4
  <1> QED BY <1>5 DEF hunk

(* The hunks of a file. *)
LEMMA PlainHunksAreRead ==
    ASSUME NEW W, NEW policy, NEW done \in Seq(ReadFile(W)), NEW path \in W,
           NEW d \in Seq(InputLine(W)), NEW o,
           H!After(d, policy) = At("file", o, Ending(done, path, <<>>)),
           NEW hunks \in Seq(PlainHunk(W))
    PROVE  H!After(d \o RenderHunks(hunks), policy)
             = At(IF hunks = <<>> THEN "file" ELSE "body", o, Ending(done, path, hunks))
  <1> DEFINE B == InputLine(W)
             U == PlainHunk(W)
             state(s) == IF s = <<>> THEN "file" ELSE "body"
             Holds(s) == H!After(d \o RenderHunks(s), policy) = At(state(s), o, Ending(done, path, s))
             T == {s \in Seq(U) : Holds(s)}
  <1>1. <<>> \in T
    <2>1. d \o <<>> = d
      OBVIOUS
    <2>2. state(<<>>) = "file"
      OBVIOUS
    <2>3. Holds(<<>>)
      <3> HIDE DEF state
      <3> QED BY <2>1, <2>2, NoHunks
    <2> HIDE DEF Holds
    <2> QED BY <2>3, EmptySeq
  <1>2. U \subseteq ReadHunk(W) /\ U \subseteq CountedHunk(W)
    BY DEF PlainHunk, CountedHunk
  <1>3. ASSUME NEW s \in Seq(U), NEW x \in U, s \in T PROVE Append(s, x) \in T
    <2> DEFINE p == At(state(s), o, Ending(done, path, s))
               h == HunkHeader(x)
               r == RenderHunks(s)
               e == d \o Append(r, h)
               more == Append(s, x)
    <2>1. s \in Seq(ReadHunk(W)) /\ x \in ReadHunk(W) /\ x.lines \in Seq(PlainLine(W))
      BY <1>2, SeqMonotonic DEF PlainHunk
    <2>2. /\ x.old \in Spans /\ x.new \in Spans
          /\ x = [old |-> x.old, new |-> x.new, lines |-> x.lines]
      BY <2>1 DEF ReadHunk
    <2>3. H!After(d \o r, policy) = p
      BY <1>3
    <2>4. s = <<>> \/ \E t \in Seq(U), y \in U : s = Append(t, y)
      <3> HIDE DEF U
      <3> QED BY SequenceEmptyOrAppend
    <2>5. \/ state(s) = "file"
          \/ state(s) = "body" /\ ~H!Unfinished(p)
      <3>1. CASE s = <<>>
        BY <3>1
      <3>2. CASE s # <<>>
        <4>1. PICK t \in Seq(U), y \in U : s = Append(t, y)
          BY <2>4, <3>2
        <4>2. t \in Seq(ReadHunk(W)) /\ y \in CountedHunk(W)
          BY <1>2, <4>1, SeqMonotonic
        <4>3. ~H!Unfinished(At("body", o, Ending(done, path, Append(t, y))))
          BY <4>2, UnfinishedAt
        <4>4. state(s) = "body"
          BY <3>2
        <4> HIDE DEF state
        <4> QED BY <4>1, <4>3, <4>4
      <3> QED BY <3>1, <3>2
    <2> HIDE DEF state
    <2>6. H!Consume(p, h, policy) = At("body", o, Ending(done, path, Append(s, Begun(x.old, x.new))))
      BY <2>1, <2>5, HunkHeaderIsRead
    <2>7. r \in Seq(B) /\ h \in B /\ x.lines \in Seq(B)
      <3>1. h \in B
        BY <2>2 DEF HunkHeader, InputLine, HunkLine
      <3>2. PlainLine(W) \subseteq B
        BY DEF PlainLine, InputLine
      <3>3. x.lines \in Seq(B)
        BY <2>1, <3>2, SeqMonotonic
      <3> QED BY <2>1, <3>1, <3>3, RenderedHunks
    <2> HIDE DEF B, p, h, r
    <2>8. e \in Seq(B) /\ H!After(e, policy) = H!Consume(p, h, policy)
      <3>1. H!After(e, policy) = H!Consume(H!After(d \o r, policy), h, policy)
        BY <2>7, ConcatenationIsRead DEF B
      <3>2. d \in Seq(B) /\ Append(r, h) \in Seq(B)
        BY <2>7, AppendProperties DEF B
      <3> QED BY <2>3, <3>1, <3>2, ConcatProperties
    <2> HIDE DEF e
    <2>9. H!After(e \o x.lines, policy)
            = At("body", o, Ending(done, path, Append(s, [old |-> x.old, new |-> x.new, lines |-> x.lines])))
      <3>1. H!After(e, policy) = At("body", o, Ending(done, path, Append(s, Begun(x.old, x.new))))
        BY <2>6, <2>8
      <3> QED BY <2>1, <2>2, <2>8, <3>1, PlainLinesAreRead DEF B
    <2>10. d \o RenderHunks(more) = e \o x.lines
      <3> DEFINE one == <<h>>
                 ls == x.lines
      <3>1. RenderHunks(more) = r \o RenderHunk(x) /\ RenderHunk(x) = one \o ls
        BY <2>1, NextHunk DEF r, h, RenderHunk, HunkHeader
      <3>2. one \in Seq(B) /\ d \in Seq(B) /\ r \in Seq(B) /\ ls \in Seq(B)
        BY <2>7 DEF B
      <3>3. Append(r, h) = r \o one
        BY <2>7, AppendIsConcat
      <3> HIDE DEF one, ls
      <3>4. d \o (r \o (one \o ls)) = (d \o (r \o one)) \o ls
        <4>1. Regrouped(d, r, one, ls)
          BY ONLY <3>2, FourAreJoined
        <4> QED BY <4>1 DEF Regrouped
      <3> QED BY <3>1, <3>3, <3>4 DEF e, ls
    <2>11. more \in Seq(U) /\ more # <<>>
      <3> HIDE DEF U
      <3> QED BY AppendProperties
    <2>12. state(more) = "body"
      BY <2>11 DEF state
    <2> HIDE DEF more
    <2>13. Holds(more)
      <3>1. At("body", o, Ending(done, path, Append(s, [old |-> x.old, new |-> x.new, lines |-> x.lines])))
              = At(state(more), o, Ending(done, path, more))
        BY <2>2, <2>12 DEF more
      <3> QED BY <2>9, <2>10, <3>1
    <2> HIDE DEF Holds
    <2>14. more \in T
      BY <2>11, <2>13
    <2> QED BY <2>14 DEF more
  <1>4. Seq(U) \subseteq T
    <2> HIDE DEF U, T
    <2> QED BY <1>1, <1>3, SequencesAreReached
  <1> HIDE DEF state
  <1>5. hunks \in T
    BY <1>4
  <1> QED BY <1>5 DEF state

Headed(d, a, b, r) == d \o (<<a, b>> \o r) = Append(Append(d, a), b) \o r

(* The two headers of a file, and what follows them. *)
LEMMA HeadersAreJoined ==
    ASSUME NEW B, NEW d \in Seq(B), NEW a \in B, NEW b \in B, NEW r \in Seq(B)
    PROVE  Headed(d, a, b, r)
  <1> DEFINE one == <<a>>
             two == <<b>>
             both == <<a, b>>
             e == Append(d, a)
  <1>1. one \in Seq(B) /\ two \in Seq(B) /\ both \in Seq(B) /\ both = one \o two
    <2>1. one \in Seq(B) /\ two \in Seq(B)
      OBVIOUS
    <2>2. both = Append(one, b)
      OBVIOUS
    <2>3. Append(one, b) = one \o two
      <3> HIDE DEF one
      <3> QED BY <2>1, AppendIsConcat
    <2>4. one \o two \in Seq(B)
      <3> HIDE DEF one, two
      <3> QED BY <2>1, ConcatProperties
    <2> HIDE DEF one, two, both
    <2> QED BY <2>1, <2>2, <2>3, <2>4
  <1>2. e \in Seq(B) /\ e = d \o one /\ Append(e, b) = e \o two
    BY AppendProperties, AppendIsConcat
  <1> HIDE DEF one, two, both, e
  <1>3. d \o (one \o two) = (d \o one) \o two
    BY <1>1, ConcatAssociative, SMTT(60)
  <1>4. d \o both = Append(e, b)
    BY <1>1, <1>2, <1>3
  <1>5. d \o (both \o r) = (d \o both) \o r
    BY <1>1, ConcatAssociative, SMTT(60)
  <1> QED BY <1>4, <1>5 DEF Headed, both, e

(* A file that is read whole is finished. *)
LEMMA PlainFilesAreFinished ==
    ASSUME NEW W, NEW policy, NEW files \in Seq(PlainFile(W, policy)), files # <<>>, NEW o
    PROVE  ~H!Unfinished(At("body", o, files))
  <1> DEFINE F == PlainFile(W, policy)
             U == PlainHunk(W)
  <1>1. PICK done \in Seq(F), file \in F : files = Append(done, file)
    <2> HIDE DEF F
    <2> QED BY SequenceEmptyOrAppend DEF F
  <1>2. F \subseteq ReadFile(W) /\ U \subseteq ReadHunk(W) /\ U \subseteq CountedHunk(W)
    BY DEF PlainFile, PlainHunk, CountedHunk
  <1>3. /\ file = [path |-> file.path, hunks |-> file.hunks] /\ file.path \in W
        /\ file.hunks \in Seq(U) /\ file.hunks # <<>>
    BY DEF PlainFile, ReadFile
  <1>4. PICK hunks \in Seq(U), hunk \in U : file.hunks = Append(hunks, hunk)
    <2> DEFINE hs == file.hunks
    <2>1. hs \in Seq(U) /\ hs # <<>>
      BY <1>3
    <2> HIDE DEF U, hs
    <2>2. \E t \in Seq(U), h \in U : hs = Append(t, h)
      BY <2>1, SequenceEmptyOrAppend
    <2> QED BY <2>2 DEF hs
  <1>5. done \in Seq(ReadFile(W)) /\ hunks \in Seq(ReadHunk(W)) /\ hunk \in CountedHunk(W)
    BY <1>2, SeqMonotonic
  <1>6. files = Ending(done, file.path, Append(hunks, hunk))
    BY <1>1, <1>3, <1>4 DEF Ending
  <1>7. ~H!Unfinished(At("body", o, Ending(done, file.path, Append(hunks, hunk))))
    BY <1>3, <1>5, UnfinishedAt
  <1> QED BY <1>6, <1>7

(* One file more. *)
LEMMA PlainFileIsRead ==
    ASSUME NEW W, AreWords(W), NEW policy, NEW files \in Seq(PlainFile(W, policy)),
           NEW file \in PlainFile(W, policy), NEW o, NEW s,
           s = IF files = <<>> THEN "top" ELSE "body",
           H!After(Render(files), policy) = At(s, o, files)
    PROVE  H!After(Render(Append(files, file)), policy) = At("body", file.path, Append(files, file))
  <1> DEFINE B == InputLine(W)
             path == file.path
             hunks == file.hunks
             a == Line("-", <<"--", "a/", path>>)
             b == Line("+", <<"++", "b/", path>>)
             d == Render(files)
             e == Append(d, a)
             f == Append(e, b)
             r == RenderHunks(hunks)
  <1>1. /\ files \in Seq(ReadFile(W)) /\ file \in ReadFile(W) /\ path \in W /\ path \in policy.allowed
        /\ hunks \in Seq(PlainHunk(W)) /\ hunks # <<>> /\ hunks \in Seq(ReadHunk(W))
        /\ file = [path |-> path, hunks |-> hunks]
    <2>1. PlainFile(W, policy) \subseteq ReadFile(W) /\ PlainHunk(W) \subseteq ReadHunk(W)
      BY DEF PlainFile, PlainHunk, CountedHunk
    <2>2. /\ file \in ReadFile(W) /\ path \in W /\ path \in policy.allowed
          /\ hunks \in Seq(PlainHunk(W)) /\ hunks # <<>>
          /\ file = [path |-> path, hunks |-> hunks]
      BY DEF PlainFile, ReadFile
    <2> QED BY <2>1, <2>2, SeqMonotonic
  <1>2. s \in {"top", "body"} /\ ~H!Unfinished(At(s, o, files))
    <2>1. CASE files = <<>>
      <3>1. s = "top" /\ At(s, o, files).state = "top"
        BY <2>1 DEF At
      <3> QED BY <3>1 DEF H!Unfinished
    <2>2. CASE files # <<>>
      BY <2>2, PlainFilesAreFinished
    <2> QED BY <2>1, <2>2
  <1>3. a \in B /\ b \in B /\ Headers(path) = <<a, b>>
    BY <1>1, HeadersAreLines DEF InputLine, Headers
  <1>4. d \in Seq(B) /\ r \in Seq(B)
    BY <1>1, RenderedFiles, RenderedHunks
  <1>5. Render(Append(files, file)) = d \o (Headers(path) \o r)
    <2>1. Render(Append(files, file)) = d \o RenderFile(file)
      BY <1>1, NextFile
    <2>2. RenderFile([path |-> path, hunks |-> hunks]) = Headers(path) \o r
      BY <1>1, FilesAreLines
    <2> QED BY <1>1, <2>1, <2>2
  <1>6. H!Consume(At(s, o, files), a, policy) = At("old", path, files)
    BY <1>1, <1>2, OldHeaderIsRead
  <1>7. H!Consume(At("old", path, files), b, policy) = At("file", path, Ending(files, path, <<>>))
    BY <1>1, NewHeaderIsRead
  <1> HIDE DEF B, a, b, d, r, path, hunks
  <1>8. e \in Seq(B) /\ f \in Seq(B)
    BY <1>3, <1>4, AppendProperties
  <1>9. H!After(e, policy) = H!Consume(H!After(d, policy), a, policy)
    BY <1>3, <1>4, NextIsRead
  <1>10. H!After(f, policy) = H!Consume(H!After(e, policy), b, policy)
    <2> HIDE DEF e
    <2> QED BY <1>3, <1>8, NextIsRead
  <1> HIDE DEF f
  <1>11. H!After(f, policy) = At("file", path, Ending(files, path, <<>>))
    <2>1. H!After(d, policy) = At(s, o, files)
      BY DEF d
    <2>2. H!After(e, policy) = At("old", path, files)
      BY <1>6, <1>9, <2>1
    <2> HIDE DEF e
    <2> QED BY <1>7, <1>10, <2>2
  <1>12. Headed(d, a, b, r)
    BY <1>3, <1>4, HeadersAreJoined
  <1>13. Render(Append(files, file)) = f \o r
    BY <1>3, <1>5, <1>12 DEF Headed, e, f
  <1>14. H!After(f \o RenderHunks(hunks), policy)
           = At(IF hunks = <<>> THEN "file" ELSE "body", path, Ending(files, path, hunks))
    <2>1. f \in Seq(InputLine(W))
      BY <1>8 DEF B
    <2> QED BY <1>1, <1>11, <2>1, PlainHunksAreRead
  <1>15. H!After(f \o r, policy) = At("body", path, Ending(files, path, hunks))
    BY <1>1, <1>14 DEF r
  <1>16. Ending(files, path, hunks) = Append(files, file)
    BY <1>1 DEF Ending
  <1> QED BY <1>13, <1>15, <1>16 DEF path

(* All files. *)
LEMMA PlainFilesAreRead ==
    ASSUME NEW W, AreWords(W), NEW policy, NEW files \in Seq(PlainFile(W, policy))
    PROVE  \E o : H!After(Render(files), policy) = At(IF files = <<>> THEN "top" ELSE "body", o, files)
  <1> DEFINE F == PlainFile(W, policy)
             state(s) == IF s = <<>> THEN "top" ELSE "body"
             Holds(s) == \E o : H!After(Render(s), policy) = At(state(s), o, s)
             T == {s \in Seq(F) : Holds(s)}
  <1>1. <<>> \in T
    <2>1. state(<<>>) = "top"
      OBVIOUS
    <2>2. H!Nothing = At("top", "", <<>>)
      BY DEF H!Nothing, At
    <2> HIDE DEF state
    <2>3. H!After(Render(<<>>), policy) = At(state(<<>>), "", <<>>)
      BY <2>1, <2>2, NoFiles, NothingIsRead
    <2>4. Holds(<<>>)
      BY <2>3
    <2> HIDE DEF Holds
    <2> QED BY <2>4, EmptySeq
  <1>2. ASSUME NEW s \in Seq(F), NEW x \in F, s \in T PROVE Append(s, x) \in T
    <2>1. PICK o : H!After(Render(s), policy) = At(state(s), o, s)
      BY <1>2
    <2> DEFINE more == Append(s, x)
    <2>2. H!After(Render(Append(s, x)), policy) = At("body", x.path, Append(s, x))
      <3> DEFINE t == state(s)
      <3>1. t = IF s = <<>> THEN "top" ELSE "body"
        OBVIOUS
      <3> HIDE DEF t
      <3> QED BY <2>1, <3>1, PlainFileIsRead DEF t
    <2>3. more \in Seq(F) /\ more # <<>>
      <3> HIDE DEF F
      <3> QED BY AppendProperties
    <2>4. state(more) = "body"
      BY <2>3
    <2>5. Holds(more)
      <3> HIDE DEF state
      <3>1. H!After(Render(more), policy) = At(state(more), x.path, more)
        BY <2>2, <2>4
      <3> HIDE DEF more
      <3> QED BY <3>1
    <2> HIDE DEF Holds, more
    <2>6. more \in T
      BY <2>3, <2>5
    <2> QED BY <2>6 DEF more
  <1>3. Seq(F) \subseteq T
    <2> HIDE DEF F, T
    <2> QED BY <1>1, <1>2, SequencesAreReached
  <1> HIDE DEF state
  <1>4. files \in T
    BY <1>3
  <1> QED BY <1>4 DEF state

(* The counts of a hunk hold when they are those of its lines. *)
LEMMA CountsHoldOfLines ==
    ASSUME NEW W, NEW hunk \in ReadHunk(W),
           hunk.old.count = Cardinality({k \in DOMAIN hunk.lines : hunk.lines[k].kind # "+"}),
           hunk.new.count = Cardinality({k \in DOMAIN hunk.lines : hunk.lines[k].kind # "-"})
    PROVE  H!CountsHold(hunk)
  <1>1. /\ Cardinality({k \in DOMAIN hunk.lines : hunk.lines[k].kind # "+"}) = Len(H!OldSide(hunk.lines))
        /\ Cardinality({k \in DOMAIN hunk.lines : hunk.lines[k].kind # "-"}) = Len(H!NewSide(hunk.lines))
    BY LinesAreCounted
  <1> QED BY <1>1, Zenon DEF H!CountsHold

(* The patch that was rendered is the one that is read. *)
LEMMA RenderedIsParsed ==
    ASSUME NEW W, AreWords(W), NEW policy, NEW files \in Seq(ReadFile(W)),
           policy.max_files \in Int, policy.max_lines \in Int,
           \A k \in DOMAIN files : files[k].hunks # <<>>, WellFormed(files, policy),
           \A hunk \in Hunks(files) : \A k \in DOMAIN hunk.lines : ~H!OldHeader(hunk.lines[k])
    PROVE  H!parse_patch(Render(files), policy).files = files
  <1>1. ASSUME NEW hunk \in Hunks(files), hunk \in ReadHunk(W) PROVE hunk \in PlainHunk(W)
    <2> DEFINE B == DiffLine(FileText(W))
               lines == hunk.lines
    <2>1. lines \in Seq(B)
      BY <1>1 DEF ReadHunk
    <2>2. /\ hunk.old.count = Cardinality({k \in DOMAIN lines : lines[k].kind # "+"})
          /\ hunk.new.count = Cardinality({k \in DOMAIN lines : lines[k].kind # "-"})
      BY <1>1 DEF WellFormed
    <2>3. H!CountsHold(hunk)
      BY <1>1, <2>2, CountsHoldOfLines
    <2>4. \A k \in DOMAIN lines : lines[k] \in PlainLine(W)
      <3>1. \A k \in DOMAIN lines : ~H!OldHeader(lines[k])
        BY <1>1
      <3> HIDE DEF lines
      <3> QED BY <2>1, <3>1 DEF PlainLine
    <2>5. lines \in Seq(PlainLine(W))
      <3> HIDE DEF lines
      <3> QED BY <2>1, <2>4
    <2> QED BY <1>1, <2>3, <2>5 DEF PlainHunk, CountedHunk
  <1>2. ASSUME NEW k \in DOMAIN files PROVE files[k] \in PlainFile(W, policy)
    <2> DEFINE hunks == files[k].hunks
    <2>1. files[k] \in ReadFile(W) /\ hunks # <<>> /\ files[k].path \in policy.allowed
      BY DEF WellFormed
    <2>2. hunks \in Seq(ReadHunk(W))
      BY <2>1 DEF ReadFile
    <2>3. \A h \in DOMAIN hunks : hunks[h] \in Hunks(files)
      BY DEF Hunks, ToSet
    <2> HIDE DEF hunks
    <2>4. \A h \in DOMAIN hunks : hunks[h] \in PlainHunk(W)
      BY <1>1, <2>2, <2>3
    <2>5. hunks \in Seq(PlainHunk(W))
      BY <2>2, <2>4
    <2> QED BY <2>1, <2>5 DEF PlainFile, hunks
  <1>3. files \in Seq(PlainFile(W, policy))
    BY <1>2
  <1>4. PICK o : H!After(Render(files), policy) = At(IF files = <<>> THEN "top" ELSE "body", o, files)
    BY <1>3, PlainFilesAreRead
  <1> DEFINE p == H!After(Render(files), policy)
             parsed == H!parse_patch(Render(files), policy)
  <1>5. CASE files = <<>>
    <2>1. p.files = <<>>
      BY <1>4, <1>5 DEF At
    <2>2. parsed = H!Refused
      BY <2>1 DEF H!parse_patch
    <2>3. H!Refused.files = <<>>
      BY DEF H!Refused, H!Nothing
    <2> QED BY <1>5, <2>2, <2>3
  <1>6. CASE files # <<>>
    <2>1. p = At("body", o, files)
      BY <1>4, <1>6
    <2>2. ~H!Unfinished(p)
      BY <1>3, <1>6, <2>1, PlainFilesAreFinished
    <2>3. p.state = "body" /\ p.files = files
      BY <2>1 DEF At
    <2>4. Len(files) \in Nat /\ H!ChangedLines(files) \in Nat
      BY ChangedLinesAreCounted
    <2>5. ~(Len(files) > policy.max_files) /\ ~(H!ChangedLines(files) > policy.max_lines)
      BY <2>4 DEF WellFormed
    <2>6. parsed = [p EXCEPT !.state = "parsed"]
      BY <1>6, <2>2, <2>3, <2>5 DEF H!parse_patch
    <2>7. [At("body", o, files) EXCEPT !.state = "parsed"].files = files
      BY DEF At
    <2> HIDE DEF p, parsed
    <2>8. parsed.files = files
      BY <2>1, <2>6, <2>7
    <2> QED BY <2>8 DEF parsed
  <1> QED BY <1>5, <1>6

(* What the inputs of parse_patch are: lines of words W.  A patch that a   *)
(* diff is rendered from has hunks in every file.                          *)
IsParseInput(W, i) ==
    /\ i.diff \in Seq(InputLine(W)) /\ i.files \in Seq(ReadFile(W))
    /\ \A k \in DOMAIN i.files : i.files[k].hunks # <<>>
    /\ i.policy.max_files \in Int /\ i.policy.max_lines \in Int

(***************************************************************************)
(* A diff of any lines is read whole or refused, but for what follows the  *)
(* paths of its headers: what parse_patch returns, rendered, is the lines  *)
(* that it was given, cut there, every count is that of the lines, and the *)
(* policy holds.  A patch that the policy allows is read as it was from    *)
(* its rendering, whatever follows the paths, unless it deletes a line     *)
(* that looks like a header.                                               *)
(***************************************************************************)
THEOREM DiffsAreReadWholeOrRefused ==
    ASSUME NEW W, AreWords(W), input.of = "parse" => IsParseInput(W, input)
    PROVE  ParsedOrRefused
  <1> SUFFICES ASSUME input.of = "parse" PROVE ParsedOrRefused
    BY DEF ParsedOrRefused
  <1> DEFINE diff == input.diff
             files == input.files
             policy == input.policy
             parsed == H!parse_patch(diff, policy)
  <1>1. /\ diff \in Seq(InputLine(W)) /\ files \in Seq(ReadFile(W))
        /\ \A k \in DOMAIN files : files[k].hunks # <<>>
        /\ policy.max_files \in Int /\ policy.max_lines \in Int
    BY DEF IsParseInput
  <1> HIDE DEF diff, files, policy
  <1>2. parsed # H!Refused =>
          Render(parsed.files) = Significant(Cut(diff)) /\ WellFormed(parsed.files, policy)
    BY <1>1, ReadWholeOrRefused
  <1>3. /\ Cut(diff) = Render(files) /\ WellFormed(files, policy)
        /\ \A hunk \in Hunks(files) : \A k \in DOMAIN hunk.lines : ~H!OldHeader(hunk.lines[k])
        => parsed.files = files
    <2>1. H!After(Cut(diff), policy) = H!After(diff, policy)
      BY <1>1, DiffHasBeenRead, Zenon DEF IsReadCut
    <2>2. H!parse_patch(Cut(diff), policy) = parsed
      BY <2>1, Zenon DEF H!parse_patch
    <2>3. /\ WellFormed(files, policy)
          /\ \A hunk \in Hunks(files) : \A k \in DOMAIN hunk.lines : ~H!OldHeader(hunk.lines[k])
          => H!parse_patch(Render(files), policy).files = files
      BY <1>1, RenderedIsParsed
    <2> HIDE DEF parsed
    <2> QED BY <2>2, <2>3
  <1> HIDE DEF parsed
  <1> QED BY <1>2, <1>3 DEF ParsedOrRefused, parsed, diff, files, policy
=============================================================================
