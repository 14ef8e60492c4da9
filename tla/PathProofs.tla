----------------------------- MODULE PathProofs -----------------------------
(***************************************************************************)
(* What policy.matches_path decides of patterns and paths of any number of *)
(* components, of any characters: what _expression makes of a pattern, and *)
(* what fullmatch finds of a path with it, place by place of the pattern   *)
(* and of the path.                                                        *)
(***************************************************************************)
EXTENDS AlgorithmProofs

-----------------------------------------------------------------------------
(* Written patterns and paths. *)

(* Where the components of a pattern or a path are among its characters. *)
Component(Ch) == {c \in Seq(Ch) : c # <<>> /\ \A t \in 1..Len(c) : c[t] # "/"}

IsLaid(c, w, at) ==
    /\ at \in [1..Len(c) + 1 -> Nat] /\ at[1] = 1
    /\ \A i \in 1..Len(c) : at[i + 1] = at[i] + Len(c[i]) + 1
    /\ \A i \in 1..Len(c) : \A t \in 1..Len(c[i]) : w[at[i] + t - 1] = c[i][t]
    /\ \A i \in 2..Len(c) : w[at[i] - 1] = "/"
    /\ Len(w) = at[Len(c) + 1] - 2

(* Written puts them there. *)
LEMMA WrittenIsLaid ==
    ASSUME NEW Ch, "/" \in Ch, NEW c \in Seq(Component(Ch)), c # <<>>
    PROVE  Written(c) \in Seq(Ch) /\ \E at : IsLaid(c, Written(c), at)
  <1> DEFINE Part(k) == (IF k = 1 THEN <<>> ELSE <<"/">>) \o c[k]
             parts == [k \in DOMAIN c |-> Part(k)]
  <1>1. DOMAIN c = 1..Len(c) /\ Len(c) \in Nat \ {0}
    OBVIOUS
  <1>2. ASSUME NEW k \in 1..Len(c) PROVE c[k] \in Seq(Ch) /\ Len(c[k]) \in Nat
    BY DEF Component
  <1>3. ASSUME NEW k \in 1..Len(c)
        PROVE  /\ Part(k) \in Seq(Ch)
               /\ k = 1 => Part(k) = c[k]
               /\ k # 1 => /\ Len(Part(k)) = Len(c[k]) + 1 /\ Part(k)[1] = "/"
                          /\ \A t \in 1..Len(c[k]) : Part(k)[t + 1] = c[k][t]
    <2> DEFINE d == c[k]
               s == <<"/">>
    <2>1. s \in Seq(Ch) /\ Len(s) = 1 /\ s[1] = "/"
      OBVIOUS
    <2>2. d \in Seq(Ch) /\ Len(d) \in Nat
      BY <1>2
    <2>3. /\ k = 1 => Part(k) = <<>> \o d
          /\ k # 1 => Part(k) = s \o d
      OBVIOUS
    <2>4. k = 1 => Part(k) = d
      <3> HIDE DEF d, s, Part
      <3> QED BY <2>2, <2>3, ConcatEmptySeq
    <2>5. k # 1 => Part(k) \in Seq(Ch) /\ Joins(Part(k), s, d)
      <3> HIDE DEF d, s, Part
      <3> QED BY <2>1, <2>2, <2>3, ConcatenationJoins
    <2>6. ASSUME k # 1
          PROVE  /\ Len(Part(k)) = Len(d) + 1 /\ Part(k)[1] = "/"
                 /\ \A t \in 1..Len(d) : Part(k)[t + 1] = d[t]
      <3> DEFINE p == Part(k)
      <3> HIDE DEF d, s, p
      <3>1. Joins(p, s, d)
        BY <2>5, <2>6 DEF p
      <3>2. \A t \in 1..Len(d) : p[1 + t] = d[t]
        BY <2>1, <3>1 DEF Joins
      <3>3. \A t \in 1..Len(d) : 1 + t = t + 1
        OBVIOUS
      <3>4. Len(p) = Len(d) + 1 /\ p[1] = "/"
        BY <2>1, <2>2, <3>1 DEF Joins
      <3>5. \A t \in 1..Len(d) : p[t + 1] = d[t]
        BY <3>2, <3>3
      <3> QED BY <3>4, <3>5 DEF p
    <2> HIDE DEF Part, d, s
    <2>7. Part(k) \in Seq(Ch)
      BY <2>2, <2>4, <2>5
    <2>8. k = 1 => Part(k) = c[k]
      BY <2>4 DEF d
    <2>9. k # 1 => /\ Len(Part(k)) = Len(c[k]) + 1 /\ Part(k)[1] = "/"
                   /\ \A t \in 1..Len(c[k]) : Part(k)[t + 1] = c[k][t]
      BY <2>6 DEF d
    <2> QED BY <2>7, <2>8, <2>9
  <1>4. parts \in Seq(Seq(Ch)) /\ Len(parts) = Len(c) /\ parts # <<>>
    BY <1>1, <1>3
  <1>5. Written(c) = FlattenSeq(parts)
    BY DEF Written
  <1>6. \A k \in 1..Len(c) : parts[k] = Part(k)
    <2> HIDE DEF Part
    <2> QED BY <1>1
  <1> HIDE DEF parts, Part
  <1>7. PICK f \in [1..Len(parts) -> Seq(Ch)] : Flat(f, parts) /\ FlattenSeq(parts) = f[Len(parts)]
    BY <1>4, FlatteningExists
  <1> DEFINE w == f[Len(c)]
             at == [i \in 1..Len(c) + 1 |-> IF i = 1 THEN 1 ELSE Len(f[i - 1]) + 2]
  <1>8. ASSUME NEW i \in 1..Len(c)
        PROVE  /\ f[i] \in Seq(Ch) /\ Len(f[i]) <= Len(w)
               /\ \A x \in 1..Len(f[i]) : w[x] = f[i][x]
    <2> DEFINE n == Len(c)
    <2>1. n \in 1..Len(parts) /\ i \in 1..n /\ i \in 1..Len(parts)
      BY <1>1, <1>4
    <2> HIDE DEF n
    <2>2. Len(f[i]) <= Len(f[n]) /\ \A x \in 1..Len(f[i]) : f[n][x] = f[i][x]
      <3>1. \A k \in 1..Len(parts) : \A j \in 1..k :
               Extends(f[k], f[j])
        <4> HIDE DEF w, at
        <4> QED BY <1>4, <1>7, FlattenedIsPrefix
      <3> QED BY <2>1, <3>1 DEF Extends
    <2>3. f[i] \in Seq(Ch)
      BY <2>1
    <2> QED BY <2>2, <2>3 DEF n
  <1>9. \A i \in 1..Len(c) : at[i + 1] = Len(f[i]) + 2
    OBVIOUS
  <1>10. at \in [1..Len(c) + 1 -> Nat] /\ at[1] = 1 /\ Len(w) = at[Len(c) + 1] - 2
    <2>1. at \in [1..Len(c) + 1 -> Nat]
      <3>1. ASSUME NEW i \in 1..Len(c) + 1 PROVE (IF i = 1 THEN 1 ELSE Len(f[i - 1]) + 2) \in Nat
        <4>1. i # 1 => i - 1 \in 1..Len(c)
          OBVIOUS
        <4> QED BY <1>8, <4>1
      <3> QED BY <3>1
    <2>2. at[1] = 1
      BY <1>1
    <2>3. Len(w) \in Nat
      BY <1>1, <1>8
    <2> QED BY <1>1, <1>9, <2>1, <2>2, <2>3
  <1>11. ASSUME NEW i \in 1..Len(c)
         PROVE  /\ at[i + 1] = at[i] + Len(c[i]) + 1
                /\ \A t \in 1..Len(c[i]) : w[at[i] + t - 1] = c[i][t]
                /\ i # 1 => w[at[i] - 1] = "/"
    <2>1. CASE i = 1
      <3>1. f[i] = c[i]
        BY <1>3, <1>4, <1>6, <1>7, <2>1 DEF Flat
      <3>2. at[i] = 1 /\ at[i + 1] = Len(f[i]) + 2
        BY <1>9, <2>1
      <3> HIDE DEF w, at
      <3> QED BY <1>2, <1>8, <2>1, <3>1, <3>2
    <2>2. CASE i # 1
      <3>1. i - 1 \in 1..Len(c) /\ (i - 1) + 1 = i
        BY <2>2
      <3> DEFINE g == f[i - 1]
                 p == Part(i)
      <3>2. f[i] = g \o p /\ p \in Seq(Ch) /\ g \in Seq(Ch)
        BY <1>3, <1>4, <1>6, <1>7, <1>8, <2>2, <3>1, ZenonT(60) DEF Flat
      <3>3. at[i] = Len(g) + 2 /\ at[i + 1] = Len(f[i]) + 2
        BY <1>9, <3>1
      <3>4. /\ Len(p) = Len(c[i]) + 1 /\ p[1] = "/"
            /\ \A t \in 1..Len(c[i]) : p[t + 1] = c[i][t]
        BY <1>3, <2>2
      <3> HIDE DEF w, at, g, p
      <3>5. Joins(f[i], g, p)
        BY <3>2, ConcatenationJoins
      <3>6. Len(g) \in Nat /\ Len(p) \in Nat /\ Len(f[i]) = Len(g) + Len(p)
        BY <3>5 DEF Joins
      <3>7. ASSUME NEW x \in 1..Len(p) PROVE w[Len(g) + x] = p[x]
        <4> DEFINE y == Len(g) + x
        <4>1. y \in 1..Len(f[i])
          BY <3>6
        <4>2. f[i][y] = p[x]
          BY <3>5 DEF Joins
        <4> HIDE DEF y
        <4>3. w[y] = p[x]
          BY <1>8, <4>1, <4>2
        <4> QED BY <4>3 DEF y
      <3>8. w[at[i] - 1] = "/"
        <4>1. at[i] - 1 = Len(g) + 1 /\ 1 \in 1..Len(p)
          BY <1>2, <3>3, <3>4, <3>6
        <4> QED BY <3>4, <3>7, <4>1
      <3>9. ASSUME NEW t \in 1..Len(c[i]) PROVE w[at[i] + t - 1] = c[i][t]
        <4>1. at[i] + t - 1 = Len(g) + (t + 1) /\ t + 1 \in 1..Len(p)
          BY <1>2, <3>3, <3>4, <3>6
        <4> QED BY <3>4, <3>7, <4>1
      <3>10. at[i + 1] = at[i] + Len(c[i]) + 1
        <4> DEFINE x == Len(c[i])
                   y == Len(p)
                   z == Len(g)
                   u == at[i]
                   v == at[i + 1]
        <4>1. x \in Nat /\ y = x + 1 /\ z \in Nat /\ u = z + 2 /\ v = (z + y) + 2
          BY <1>2, <3>3, <3>4, <3>6
        <4> HIDE DEF x, y, z, u, v
        <4>2. v = u + x + 1
          BY <4>1
        <4> QED BY <4>2 DEF x, u, v
      <3> QED BY <3>8, <3>9, <3>10
    <2> QED BY <2>1, <2>2
  <1>12. Written(c) = w /\ w \in Seq(Ch)
    BY <1>1, <1>4, <1>5, <1>7, <1>8
  <1> HIDE DEF w, at
  <1>13. IsLaid(c, w, at)
    BY <1>10, <1>11 DEF IsLaid
  <1> QED BY <1>12, <1>13

(* The components follow each other, and between two of them is a slash.   *)
LEMMA LaidAreApart ==
    ASSUME NEW Ch, NEW c \in Seq(Component(Ch)), NEW w, NEW at, IsLaid(c, w, at)
    PROVE  /\ \A i \in 1..Len(c) : at[i] + 2 <= at[i + 1] /\ at[i] >= 1
           /\ \A j \in 1..Len(c) + 1 : \A i \in 1..j : i # j => at[i] + 2 <= at[j]
           /\ \A i \in 1..Len(c) : \A x \in at[i]..at[i + 1] - 2 : w[x] # "/"
           /\ \A x \in 1..Len(w) :
                 \/ \E i \in 2..Len(c) : x = at[i] - 1
                 \/ \E i \in 1..Len(c) : x \in at[i]..at[i + 1] - 2
  <1> DEFINE n == Len(c)
             Q(x) == \/ \E i \in 2..n : x = at[i] - 1
                     \/ \E i \in 1..n : x \in at[i]..at[i + 1] - 2
  <1>1. n \in Nat /\ \A i \in 1..n : at[i] \in Nat /\ at[i + 1] \in Nat
    <2>1. n \in Nat /\ \A i \in 1..n + 1 : at[i] \in Nat
      BY DEF IsLaid
    <2> HIDE DEF n
    <2> QED BY <2>1
  <1>2. ASSUME NEW i \in 1..n
        PROVE  /\ Len(c[i]) \in Nat /\ Len(c[i]) >= 1 /\ at[i + 1] = at[i] + Len(c[i]) + 1
               /\ \A t \in 1..Len(c[i]) : c[i][t] # "/"
    <2>1. c[i] \in Component(Ch)
      OBVIOUS
    <2> QED BY <2>1 DEF Component, IsLaid
  <1>3. \A i \in 1..n : at[i] + 2 <= at[i + 1]
    BY <1>1, <1>2, SMTT(60)
  <1> DEFINE N == {k \in Nat : \A j \in 1..n + 1 : j <= k => /\ \A i \in 1..j : i # j => at[i] + 2 <= at[j]
                                                     /\ \A x \in 1..at[j] - 2 : Q(x)}
  <1>4. 0 \in N
    OBVIOUS
  <1>5. ASSUME NEW k \in Nat, k \in N PROVE k + 1 \in N
    <2>1. ASSUME k + 1 \in 1..n + 1, NEW i \in 1..k + 1, i # k + 1
          PROVE  at[i] + 2 <= at[k + 1]
      <3>1. k \in 1..n /\ i \in 1..k /\ k \in 1..n + 1
        BY <1>1, <2>1
      <3>2. at[k] + 2 <= at[k + 1] /\ at[k] \in Nat /\ at[k + 1] \in Nat /\ at[i] \in Nat
        BY <1>1, <1>3, <3>1
      <3>3. i # k => at[i] + 2 <= at[k]
        <4> HIDE DEF Q
        <4> QED BY <1>5, <3>1
      <3> QED BY <3>2, <3>3
    <2>2. ASSUME k + 1 \in 1..n + 1, NEW x \in 1..at[k + 1] - 2
          PROVE  Q(x)
      <3>1. CASE k = 0
        <4>1. at[k + 1] = 1
          BY <3>1 DEF IsLaid
        <4> QED BY <2>2, <4>1
      <3>2. CASE k # 0
        <4>1. k \in 1..n /\ k \in 1..n + 1 /\ at[k] \in Nat /\ at[k + 1] \in Nat
          BY <1>1, <2>2, <3>2
        <4>2. CASE x <= at[k] - 2
          <5>1. x \in 1..at[k] - 2
            BY <4>1, <4>2
          <5> HIDE DEF Q
          <5> QED BY <1>5, <4>1, <5>1
        <4>3. CASE x = at[k] - 1
          <5>1. k # 1
            BY <4>1, <4>3 DEF IsLaid
          <5>2. k \in 2..n
            BY <4>1, <5>1
          <5> QED BY <4>3, <5>2
        <4>4. CASE x >= at[k]
          <5>1. x \in at[k]..at[k + 1] - 2
            BY <2>2, <4>1, <4>4
          <5> QED BY <4>1, <5>1
        <4> QED BY <2>2, <4>1, <4>2, <4>3, <4>4
      <3> QED BY <3>1, <3>2
    <2>3. ASSUME NEW j \in 1..n + 1, j <= k + 1
          PROVE  (\A i \in 1..j : i # j => at[i] + 2 <= at[j]) /\ \A x \in 1..at[j] - 2 : Q(x)
      <3> HIDE DEF Q
      <3>1. CASE j = k + 1
        BY <2>1, <2>2, <3>1
      <3>2. CASE j # k + 1
        <4>1. j <= k
          BY <2>3, <3>2, <1>1
        <4> QED BY <1>5, <4>1
      <3> QED BY <3>1, <3>2
    <2> HIDE DEF Q
    <2> QED BY <2>3
  <1>6. Nat \subseteq N
    <2> HIDE DEF N
    <2> QED BY <1>4, <1>5, NumbersAreReached
  <1>7. ASSUME NEW j \in 1..n + 1
        PROVE  (\A i \in 1..j : i # j => at[i] + 2 <= at[j]) /\ \A x \in 1..at[j] - 2 : Q(x)
    <2> HIDE DEF Q
    <2>1. j \in N
      <3> HIDE DEF N
      <3> QED BY <1>6
    <2> QED BY <2>1
  <1>8. ASSUME NEW i \in 1..n, NEW x \in at[i]..at[i + 1] - 2 PROVE w[x] # "/"
    <2> DEFINE t == x - at[i] + 1
    <2>1. t \in 1..Len(c[i]) /\ at[i] + t - 1 = x
      <3> DEFINE k == Len(c[i])
                 a == at[i]
                 b == at[i + 1]
      <3>1. k \in Nat /\ a \in Nat /\ b = a + k + 1 /\ x \in a..b - 2 /\ t = x - a + 1
        BY <1>1, <1>2
      <3> HIDE DEF k, a, b, t
      <3>2. t \in 1..k /\ a + t - 1 = x
        BY <3>1
      <3> QED BY <3>2 DEF k, a
    <2> HIDE DEF t
    <2>2. w[x] = c[i][t] /\ c[i][t] # "/"
      BY <1>2, <2>1 DEF IsLaid
    <2> QED BY <2>2
  <1>9. \A x \in 1..Len(w) : Q(x)
    <2>1. Len(w) = at[n + 1] - 2 /\ n + 1 \in 1..n + 1
      BY <1>1 DEF IsLaid
    <2> HIDE DEF Q
    <2> QED BY <1>7, <2>1
  <1>10. \A i \in 1..n : at[i] >= 1
    <2>1. ASSUME NEW i \in 1..n PROVE at[i] >= 1
      <3>1. i \in 1..n + 1 /\ 1 \in 1..i /\ at[1] = 1 /\ at[i] \in Nat
        BY <1>1 DEF IsLaid
      <3>2. i # 1 => at[1] + 2 <= at[i]
        <4> HIDE DEF Q
        <4> QED BY <1>7, <3>1
      <3> QED BY <3>1, <3>2
    <2> QED BY <2>1
  <1> QED BY <1>3, <1>7, <1>8, <1>9, <1>10

-----------------------------------------------------------------------------
(* Patterns and expressions. *)
Marks == {"any", "within", "dirs"}

(* F: what Expression makes of the pattern from every place of it. *)
Expresses(F, w) ==
    \A i \in 1..Len(w) + 1 :
       F[i] = IF i > Len(w) THEN <<>>
              ELSE IF w[i] # "*" THEN <<w[i]>> \o F[i + 1]
              ELSE IF P!At(w, i + 1) # "*" THEN <<"within">> \o F[i + 1]
              ELSE IF P!DirsAt(w, i) THEN <<"dirs">> \o F[i + 3]
              ELSE <<"any">> \o F[i + 2]

(* There is such an F, and it is sequences of characters and marks. *)
LEMMA PatternsAreExpressed ==
    ASSUME NEW Ch, NEW w \in Seq(Ch)
    PROVE  \E F \in [1..Len(w) + 1 -> Seq(Ch \cup Marks)] : Expresses(F, w) /\ P!Expression(w) = F[1]
  <1> DEFINE D == 1..Len(w) + 1
             V == Seq(Ch \cup Marks)
             rank == [i \in D |-> Len(w) + 1 - i]
             Value(i, F) ==
               IF i > Len(w) THEN <<>>
               ELSE IF w[i] # "*" THEN <<w[i]>> \o F[i + 1]
               ELSE IF P!At(w, i + 1) # "*" THEN <<"within">> \o F[i + 1]
               ELSE IF P!DirsAt(w, i) THEN <<"dirs">> \o F[i + 3]
               ELSE <<"any">> \o F[i + 2]
             G == [z \in D \X [D -> V] |-> Value(z[1], z[2])]
  <1>1. Len(w) \in Nat
    OBVIOUS
  <1>2. ASSUME NEW i \in D, i <= Len(w)
        PROVE  /\ i + 1 \in D /\ i + 1 > i
               /\ P!At(w, i + 1) = "*" => i + 2 \in D /\ i + 2 > i
               /\ P!DirsAt(w, i) => i + 3 \in D /\ i + 3 > i
    BY <1>1, <1>2 DEF P!At, P!DirsAt
  <1>3. ASSUME NEW i \in D, NEW F \in [D -> V]
        PROVE  Value(i, F) \in V
    <2>1. <<>> \in V /\ <<"within">> \in V /\ <<"dirs">> \in V /\ <<"any">> \in V
      BY DEF Marks
    <2>2. i <= Len(w) => <<w[i]>> \in V
      BY <1>1
    <2>3. \A a, b \in V : a \o b \in V
      <3> HIDE DEF V
      <3> QED BY ConcatProperties DEF V
    <2>4. \A j \in D : F[j] \in V
      <3> HIDE DEF D, V
      <3> QED OBVIOUS
    <2> HIDE DEF V, D
    <2>5. i > Len(w) \/ i <= Len(w)
      BY <1>1 DEF D
    <2> QED BY <1>2, <2>1, <2>2, <2>3, <2>4, <2>5, Zenon
  <1>4. ASSUME NEW d \in D, NEW f, NEW g, \A e \in D : rank[e] < rank[d] => f[e] = g[e]
        PROVE  Value(d, f) = Value(d, g)
    <2>1. \A e \in D : e > d => f[e] = g[e]
      <3>1. \A e \in D : e > d => rank[e] < rank[d]
        BY <1>1
      <3> QED BY <1>4, <3>1
    <2>2. d > Len(w) \/ d <= Len(w)
      BY <1>1
    <2> HIDE DEF V, D, rank
    <2> QED BY <1>2, <2>1, <2>2, Zenon
  <1>5. \A d \in D : \A f, g \in [D -> V] :
          (\A e \in D : rank[e] < rank[d] => f[e] = g[e]) => G[<<d, f>>] = G[<<d, g>>]
    <2>2. \A d \in D : \A f \in [D -> V] : G[<<d, f>>] = Value(d, f)
      <3> HIDE DEF Value, D, V
      <3> QED OBVIOUS
    <2> HIDE DEF G, D, V, rank, Value
    <2> QED BY <1>4, <2>2
  <1>6. \E F \in [D -> V] : \A d \in D : F[d] = G[<<d, F>>]
    <2> DEFINE m == Len(w) + 1
    <2>1. m \in Nat /\ rank \in [D -> Nat] /\ \A d \in D : rank[d] < m
      BY <1>1
    <2>2. G \in [D \X [D -> V] -> V]
      <3> HIDE DEF Value, D, V
      <3> QED BY <1>3
    <2>3. V # {}
      <3>1. <<>> \in V
        OBVIOUS
      <3> QED BY <3>1
    <2> HIDE DEF G, D, V, rank, m
    <2>4. Descends(D, V, rank, m, G)
      BY <1>5, <2>1, <2>2, <2>3 DEF Descends
    <2> QED BY <2>4, RecursionExists
  <1>7. PICK F \in [D -> V] : \A d \in D : F[d] = Value(d, F)
    <2> HIDE DEF Value, D, V
    <2> QED BY <1>6
  <1> DEFINE Is(h) == h = [i \in D |-> Value(i, h)]
             h == CHOOSE h : Is(h)
  <1>8. Is(F)
    <2> HIDE DEF Value, V, D
    <2> QED BY <1>7
  <1>9. Is(h)
    <2> HIDE DEF Is
    <2> QED BY <1>8
  <1>10. P!Expression(w) = h[1]
    BY Zenon DEF P!Expression
  <1>11. D \subseteq {d \in D : F[d] = h[d]}
    <2> DEFINE T == {d \in D : F[d] = h[d]}
    <2>1. \A d \in D : h[d] = Value(d, h)
      <3> HIDE DEF h, Value, D
      <3> QED BY <1>9
    <2> HIDE DEF h
    <2>2. ASSUME NEW d \in D, \A e \in D : rank[e] < rank[d] => e \in T
          PROVE  d \in T
      <3>1. \A e \in D : rank[e] < rank[d] => F[e] = h[e]
        BY <2>2
      <3> HIDE DEF Value, rank
      <3>2. Value(d, F) = Value(d, h)
        BY <1>4, <3>1
      <3> QED BY <1>7, <2>1, <3>2
    <2>3. rank \in [D -> Nat]
      BY <1>1
    <2> HIDE DEF D, rank, T
    <2>4. D \subseteq T
      BY <2>2, <2>3, RanksAreReached
    <2> QED BY <2>4 DEF T
  <1>12. 1 \in D
    BY <1>1
  <1> HIDE DEF h
  <1>13. P!Expression(w) = F[1]
    BY <1>10, <1>11, <1>12
  <1>14. Expresses(F, w)
    BY <1>7 DEF Expresses
  <1> QED BY <1>13, <1>14

(* What FullMatch finds at a place of the expression and one of the path, from *)
(* the row of what it finds at the next place of the expression.               *)
Finds(expression, path, i, next, j) ==
    IF i > Len(expression) THEN j > Len(path)
    ELSE \/ expression[i] = "any" /\ \E k \in j..Len(path) + 1 : next[k]
         \/ /\ expression[i] = "within"
            /\ \E k \in j..Len(path) + 1 : (\A l \in j..k - 1 : path[l] # "/") /\ next[k]
         \/ /\ expression[i] = "dirs"
            /\ next[j] \/ \E k \in j..Len(path) : path[k] = "/" /\ next[k + 1]
         \/ /\ expression[i] \notin Marks
            /\ j <= Len(path) /\ path[j] = expression[i] /\ next[j + 1]

Row(expression, path, i, next) == [j \in 1..Len(path) + 1 |-> Finds(expression, path, i, next, j)]

(* T: what the rest of the expression, from every place of it, matches.    *)
Matching(T, expression, path) ==
    \A i \in 1..Len(expression) + 1 : T[i] = Row(expression, path, i, T[i + 1])

(* There is such a T, and FullMatch is what it holds of the beginnings. *)
LEMMA ExpressionsMatch ==
    ASSUME NEW B, NEW expression \in Seq(B), NEW Ch, NEW path \in Seq(Ch)
    PROVE  \E T : Matching(T, expression, path) /\ P!FullMatch(expression, path) = T[1][1]
  <1> DEFINE m == Len(expression)
             n == Len(path)
             D == 1..m + 1
             V == [1..n + 1 -> BOOLEAN]
             rank == [d \in D |-> m + 1 - d]
             Value(i, T) == Row(expression, path, i, T[i + 1])
             G == [z \in D \X [D -> V] |-> Value(z[1], z[2])]
             Is(h) == h = [i \in D |-> Value(i, h)]
             h == CHOOSE h : Is(h)
  <1>1. m \in Nat /\ n \in Nat
    OBVIOUS
  <1>2. \A i \in D : \A r : Row(expression, path, i, r) \in V
    <2>1. ASSUME NEW i \in D, NEW r, NEW j \in 1..n + 1
          PROVE  Finds(expression, path, i, r, j) \in BOOLEAN
      <3>1. (i > Len(expression)) \in BOOLEAN /\ (j > Len(path)) \in BOOLEAN
        BY <1>1
      <3> QED BY <3>1, Zenon DEF Finds
    <2> QED BY <2>1 DEF Row
  <1>3. ASSUME NEW d \in D, NEW f, NEW g, \A e \in D : rank[e] < rank[d] => f[e] = g[e]
        PROVE  Value(d, f) = Value(d, g)
    <2>1. d > m \/ (d + 1 \in D /\ rank[d + 1] < rank[d])
      BY <1>1
    <2>2. CASE d > m
      BY <2>2 DEF Row, Finds
    <2>3. CASE d + 1 \in D /\ rank[d + 1] < rank[d]
      <3>1. f[d + 1] = g[d + 1]
        BY <1>3, <2>3
      <3> QED BY <3>1
    <2> QED BY <2>1, <2>2, <2>3
  <1>4. \A d \in D : \A f \in [D -> V] : G[<<d, f>>] = Value(d, f)
    <2> HIDE DEF Value, D, V
    <2> QED OBVIOUS
  <1>5. \E T \in [D -> V] : \A d \in D : T[d] = G[<<d, T>>]
    <2> DEFINE l == m + 1
    <2>1. l \in Nat /\ rank \in [D -> Nat] /\ \A d \in D : rank[d] < l
      BY <1>1
    <2>2. G \in [D \X [D -> V] -> V]
      <3> HIDE DEF D, V
      <3> QED BY <1>2
    <2>3. \A d \in D : \A f, g \in [D -> V] :
            (\A e \in D : rank[e] < rank[d] => f[e] = g[e]) => G[<<d, f>>] = G[<<d, g>>]
      <3> HIDE DEF G, D, V, Value, rank
      <3> QED BY <1>3, <1>4
    <2>4. V # {}
      <3>1. [j \in 1..n + 1 |-> TRUE] \in V
        OBVIOUS
      <3> QED BY <3>1
    <2> HIDE DEF G, D, V, rank, l
    <2>5. Descends(D, V, rank, l, G)
      BY <2>1, <2>2, <2>3, <2>4 DEF Descends
    <2> QED BY <2>5, RecursionExists
  <1>6. PICK T \in [D -> V] : \A d \in D : T[d] = Value(d, T)
    <2> HIDE DEF Value, D, G, V
    <2> QED BY <1>4, <1>5
  <1>7. Is(T)
    <2> HIDE DEF Value, D, V
    <2> QED BY <1>6
  <1>8. Is(h)
    <2> HIDE DEF Is
    <2> QED BY <1>7
  <1>9. P!FullMatch(expression, path) = h[1][1]
    BY Zenon DEF P!FullMatch, Row, Finds, Marks
  <1>10. \A d \in D : h[d] = Value(d, h)
    <2> HIDE DEF h, Value, D
    <2> QED BY <1>8
  <1> HIDE DEF h
  <1>11. Matching(h, expression, path)
    BY <1>10 DEF Matching
  <1> QED BY <1>9, <1>11

(* What is left of an expression from one of its places. *)
IsRest(e, x, r) ==
    /\ x \in 1..Len(e) + 1 /\ Len(r) = Len(e) - x + 1
    /\ \A t \in 1..Len(r) : e[x + t - 1] = r[t]

(* What is left after one more place. *)
LEMMA RestAfterFirst ==
    ASSUME NEW B, NEW e \in Seq(B), NEW x, NEW c \in B, NEW r \in Seq(B), IsRest(e, x, <<c>> \o r)
    PROVE  x <= Len(e) /\ e[x] = c /\ IsRest(e, x + 1, r)
  <1> DEFINE s == <<c>>
             u == s \o r
             n == Len(e)
             l == Len(r)
  <1>1. s \in Seq(B) /\ Len(s) = 1 /\ s[1] = c
    OBVIOUS
  <1>2. Joins(u, s, r)
    <2> HIDE DEF s
    <2> QED BY <1>1, ConcatenationJoins
  <1>3. n \in Nat /\ l \in Nat
    OBVIOUS
  <1>4. IsRest(e, x, u)
    OBVIOUS
  <1> HIDE DEF s, u, n, l
  <1>5. Len(u) = 1 + l /\ u[1] = c /\ \A t \in 1..l : u[1 + t] = r[t]
    BY <1>1, <1>2 DEF Joins, l
  <1>6. x \in 1..n + 1 /\ Len(u) = n - x + 1 /\ \A t \in 1..Len(u) : e[x + t - 1] = u[t]
    BY <1>4 DEF IsRest, n
  <1>7. x \in Nat /\ 1 + l = n - x + 1 /\ x <= n /\ x + 1 \in 1..n + 1 /\ l = n - (x + 1) + 1
    BY <1>3, <1>5, <1>6
  <1>8. e[x] = c
    <2>1. 1 \in 1..Len(u) /\ x + 1 - 1 = x
      BY <1>3, <1>5, <1>7
    <2> QED BY <1>5, <1>6, <2>1
  <1>9. ASSUME NEW t \in 1..l PROVE e[(x + 1) + t - 1] = r[t]
    <2>1. 1 + t \in 1..Len(u) /\ x + (1 + t) - 1 = (x + 1) + t - 1
      BY <1>3, <1>5, <1>7
    <2>2. e[x + (1 + t) - 1] = u[1 + t]
      BY <1>6, <2>1
    <2> QED BY <1>5, <2>1, <2>2
  <1> QED BY <1>7, <1>8, <1>9 DEF IsRest, n, l

(* After the last place nothing is. *)
LEMMA NothingIsLeft ==
    ASSUME NEW B, NEW e \in Seq(B), NEW x, IsRest(e, x, <<>>)
    PROVE  x = Len(e) + 1
  BY DEF IsRest

(* A pattern w of the characters Ch, what is made of it (F, e), and what the    *)
(* expression finds in a path (T).                                             *)
Reads(Ch, w, path, F, e, T) ==
    /\ Ch \cap Marks = {} /\ w \in Seq(Ch) /\ path \in Seq(Ch)
    /\ F \in [1..Len(w) + 1 -> Seq(Ch \cup Marks)] /\ Expresses(F, w)
    /\ e = F[1] /\ Matching(T, e, path)

(* Every pattern and path are read like that. *)
LEMMA PatternsAreRead ==
    ASSUME NEW Ch, Ch \cap Marks = {}, NEW w \in Seq(Ch), NEW path \in Seq(Ch)
    PROVE  \E F, e, T : Reads(Ch, w, path, F, e, T) /\ P!matches_path(w, path) = T[1][1]
  <1>1. PICK F \in [1..Len(w) + 1 -> Seq(Ch \cup Marks)] : Expresses(F, w) /\ P!Expression(w) = F[1]
    BY PatternsAreExpressed
  <1> DEFINE e == F[1]
             B == Ch \cup Marks
  <1>2. e \in Seq(B)
    BY <1>1
  <1>3. \E T : Matching(T, e, path) /\ P!FullMatch(e, path) = T[1][1]
    <2> HIDE DEF e, B
    <2> QED BY <1>2, ExpressionsMatch
  <1>4. PICK T : Matching(T, e, path) /\ P!FullMatch(e, path) = T[1][1]
    BY <1>3
  <1>5. P!matches_path(w, path) = T[1][1]
    BY <1>1, <1>4 DEF P!matches_path
  <1>6. Reads(Ch, w, path, F, e, T)
    BY <1>1, <1>4 DEF Reads
  <1> QED BY <1>5, <1>6

(* One place of the pattern, which is x of the expression, at one of the path. *)
IsRead(w, path, F, e, T, i, x, y) ==
    /\ i = Len(w) + 1 => (T[x][y] <=> y > Len(path))
    /\ i <= Len(w) /\ w[i] # "*" =>
         /\ IsRest(e, x + 1, F[i + 1])
         /\ T[x][y] <=> (y <= Len(path) /\ path[y] = w[i] /\ T[x + 1][y + 1])
    /\ i <= Len(w) /\ w[i] = "*" /\ P!At(w, i + 1) # "*" =>
         /\ IsRest(e, x + 1, F[i + 1])
         /\ T[x][y] <=> \E k \in y..Len(path) + 1 :
                           (\A l \in y..k - 1 : path[l] # "/") /\ T[x + 1][k]
    /\ i <= Len(w) /\ w[i] = "*" /\ P!At(w, i + 1) = "*" /\ P!DirsAt(w, i) =>
         /\ IsRest(e, x + 1, F[i + 3])
         /\ T[x][y] <=> (T[x + 1][y] \/ \E k \in y..Len(path) : path[k] = "/" /\ T[x + 1][k + 1])
    /\ i <= Len(w) /\ w[i] = "*" /\ P!At(w, i + 1) = "*" /\ ~P!DirsAt(w, i) =>
         /\ IsRest(e, x + 1, F[i + 2])
         /\ T[x][y] <=> \E k \in y..Len(path) + 1 : T[x + 1][k]

(* Every place of the pattern is read like that. *)
LEMMA PlacesAreRead ==
    ASSUME NEW Ch, NEW w, NEW path, NEW F, NEW e, NEW T, Reads(Ch, w, path, F, e, T),
           NEW i \in 1..Len(w) + 1, NEW x, IsRest(e, x, F[i]), NEW y \in 1..Len(path) + 1
    PROVE  IsRead(w, path, F, e, T, i, x, y)
  <1> DEFINE B == Ch \cup Marks
             m == Len(w)
             n == Len(path)
  <1>1. m \in Nat /\ n \in Nat /\ e \in Seq(B)
    <2>1. 1 \in 1..Len(w) + 1
      BY DEF Reads
    <2> QED BY <2>1 DEF Reads
  <1>2. T[x] = Row(e, path, x, T[x + 1])
    BY DEF Reads, Matching, IsRest
  <1>3. T[x][y] = Finds(e, path, x, T[x + 1], y)
    <2> DEFINE r == T[x + 1]
    <2> HIDE DEF r
    <2> QED BY <1>2 DEF Row, r
  <1>13. F[i] = IF i > m THEN <<>>
                ELSE IF w[i] # "*" THEN <<w[i]>> \o F[i + 1]
                ELSE IF P!At(w, i + 1) # "*" THEN <<"within">> \o F[i + 1]
                ELSE IF P!DirsAt(w, i) THEN <<"dirs">> \o F[i + 3]
                ELSE <<"any">> \o F[i + 2]
    BY Zenon DEF Reads, Expresses
  <1>14. i <= m => ~(i > m)
    BY <1>1
  <1>4. i > m => F[i] = <<>>
    BY <1>13
  <1>5. i = m + 1 => (T[x][y] <=> y > n)
    <2>1. i = m + 1 => x = Len(e) + 1
      BY <1>1, <1>4, NothingIsLeft
    <2>2. x = Len(e) + 1 => x > Len(e)
      BY <1>1
    <2> QED BY <1>3, <2>1, <2>2, Zenon DEF Finds
  <1>6. ASSUME NEW c \in B, NEW j \in 1..m + 1, F[i] = <<c>> \o F[j]
        PROVE  x <= Len(e) /\ e[x] = c /\ IsRest(e, x + 1, F[j])
    <2>1. F[j] \in Seq(B)
      BY DEF Reads
    <2> DEFINE r == F[j]
    <2>2. IsRest(e, x, <<c>> \o r)
      BY <1>6
    <2> HIDE DEF B, r
    <2>3. r \in Seq(B)
      BY <2>1 DEF r
    <2>4. x <= Len(e) /\ e[x] = c /\ IsRest(e, x + 1, r)
      BY <1>1, <2>2, <2>3, RestAfterFirst
    <2> QED BY <2>4 DEF r
  <1>7. ASSUME x <= Len(e)
        PROVE  /\ e[x] \notin Marks => (T[x][y] <=> (y <= n /\ path[y] = e[x] /\ T[x + 1][y + 1]))
               /\ e[x] = "any" => (T[x][y] <=> \E k \in y..n + 1 : T[x + 1][k])
               /\ e[x] = "within" => (T[x][y] <=> \E k \in y..n + 1 :
                                         (\A l \in y..k - 1 : path[l] # "/") /\ T[x + 1][k])
               /\ e[x] = "dirs" => (T[x][y] <=>
                     (T[x + 1][y] \/ \E k \in y..n : path[k] = "/" /\ T[x + 1][k + 1]))
    <2>1. ~(x > Len(e))
      BY <1>1, <1>7 DEF IsRest
    <2>2. "any" \in Marks /\ "within" \in Marks /\ "dirs" \in Marks /\ "any" # "within"
          /\ "any" # "dirs" /\ "within" # "dirs"
      BY DEF Marks
    <2> HIDE DEF n
    <2> QED BY <1>3, <2>1, <2>2, Zenon DEF Finds, n
  <1>8. ASSUME i <= m, w[i] # "*"
        PROVE  /\ IsRest(e, x + 1, F[i + 1])
               /\ T[x][y] <=> (y <= n /\ path[y] = w[i] /\ T[x + 1][y + 1])
    <2>1. i + 1 \in 1..m + 1 /\ w[i] \in B /\ w[i] \notin Marks
      BY <1>1, <1>8 DEF Reads
    <2>2. F[i] = <<w[i]>> \o F[i + 1]
      BY <1>8, <1>13, <1>14, Zenon
    <2>3. x <= Len(e) /\ e[x] = w[i] /\ IsRest(e, x + 1, F[i + 1])
      BY <1>6, <2>1, <2>2
    <2> QED BY <1>7, <2>1, <2>3
  <1>9. "any" \in B /\ "within" \in B /\ "dirs" \in B
    BY DEF Marks
  <1>10. ASSUME i <= m, w[i] = "*", P!At(w, i + 1) # "*"
         PROVE  /\ IsRest(e, x + 1, F[i + 1])
                /\ T[x][y] <=> \E k \in y..n + 1 : (\A l \in y..k - 1 : path[l] # "/") /\ T[x + 1][k]
    <2>1. i + 1 \in 1..m + 1
      BY <1>1, <1>10
    <2>2. F[i] = <<"within">> \o F[i + 1]
      BY <1>10, <1>13, <1>14, Zenon
    <2>3. x <= Len(e) /\ e[x] = "within" /\ IsRest(e, x + 1, F[i + 1])
      BY <1>6, <1>9, <2>1, <2>2
    <2> QED BY <1>7, <2>3
  <1>11. ASSUME i <= m, w[i] = "*", P!At(w, i + 1) = "*", P!DirsAt(w, i)
         PROVE  /\ IsRest(e, x + 1, F[i + 3])
                /\ T[x][y] <=> (T[x + 1][y] \/ \E k \in y..n : path[k] = "/" /\ T[x + 1][k + 1])
    <2>1. i + 3 \in 1..m + 1
      BY <1>1, <1>11 DEF P!At, P!DirsAt
    <2>2. F[i] = <<"dirs">> \o F[i + 3]
      BY <1>11, <1>13, <1>14, Zenon
    <2>3. x <= Len(e) /\ e[x] = "dirs" /\ IsRest(e, x + 1, F[i + 3])
      BY <1>6, <1>9, <2>1, <2>2
    <2> QED BY <1>7, <2>3
  <1>12. ASSUME i <= m, w[i] = "*", P!At(w, i + 1) = "*", ~P!DirsAt(w, i)
         PROVE  /\ IsRest(e, x + 1, F[i + 2])
                /\ T[x][y] <=> \E k \in y..n + 1 : T[x + 1][k]
    <2>1. i + 2 \in 1..m + 1
      BY <1>1, <1>12 DEF P!At, P!DirsAt
    <2>2. F[i] = <<"any">> \o F[i + 2]
      BY <1>12, <1>13, <1>14, Zenon
    <2>3. x <= Len(e) /\ e[x] = "any" /\ IsRest(e, x + 1, F[i + 2])
      BY <1>6, <1>9, <2>1, <2>2
    <2> QED BY <1>7, <2>3
  <1> QED BY <1>5, <1>8, <1>10, <1>11, <1>12, Zenon DEF IsRead

-----------------------------------------------------------------------------
(* Generated paths. *)

(* A pattern matches only paths that begin as it does, up to its first star. *)
LEMMA PathsBeginAsThePattern ==
    ASSUME NEW Ch, NEW w, NEW path, NEW F, NEW e, NEW T, Reads(Ch, w, path, F, e, T),
           T[1][1], NEW k \in 0..Len(w), \A i \in 1..k : w[i] # "*"
    PROVE  /\ k <= Len(path) /\ \A i \in 1..k : path[i] = w[i]
           /\ k = Len(w) => Len(path) = k
  <1> DEFINE n == Len(path)
             m == Len(w)
             Q(l) == /\ l <= n /\ IsRest(e, l + 1, F[l + 1]) /\ T[l + 1][l + 1]
                     /\ \A i \in 1..l : path[i] = w[i]
             N == {l \in Nat : l <= k => Q(l)}
  <1>1. n \in Nat /\ m \in Nat /\ k \in Nat /\ k <= m
    BY DEF Reads
  <1>2. 0 \in N
    <2>1. e \in Seq(Ch \cup Marks) /\ e = F[1]
      <3>1. 1 \in 1..Len(w) + 1
        BY <1>1
      <3> QED BY <3>1 DEF Reads
    <2>2. IsRest(e, 1, F[1])
      <3>1. Len(e) \in Nat
        BY <2>1
      <3> QED BY <2>1, <3>1 DEF IsRest
    <2>3. 0 + 1 = 1 /\ 0 <= n
      BY <1>1
    <2> QED BY <2>2, <2>3
  <1>3. ASSUME NEW l \in Nat, l \in N PROVE l + 1 \in N
    <2>1. ASSUME l + 1 <= k PROVE Q(l + 1)
      <3> DEFINE i == l + 1
      <3>1. l <= k /\ i \in 1..m + 1 /\ i <= m /\ i \in 1..k
        BY <1>1, <2>1
      <3>2. Q(l)
        <4> HIDE DEF Q
        <4> QED BY <1>3, <3>1
      <3>3. i \in 1..n + 1 /\ IsRest(e, i, F[i]) /\ T[i][i] /\ w[i] # "*"
        BY <1>1, <3>1, <3>2
      <3>4. IsRest(e, i + 1, F[i + 1]) /\ i <= n /\ path[i] = w[i] /\ T[i + 1][i + 1]
        <4> HIDE DEF i, Q
        <4>1. IsRead(w, path, F, e, T, i, i, i)
          BY <3>1, <3>3, PlacesAreRead
        <4> QED BY <3>1, <3>3, <4>1 DEF IsRead
      <3>5. \A j \in 1..l + 1 : path[j] = w[j]
        <4>1. \A j \in 1..l + 1 : j = i \/ j \in 1..l
          OBVIOUS
        <4> HIDE DEF i
        <4> QED BY <3>2, <3>4, <4>1
      <3> QED BY <3>4, <3>5
    <2> HIDE DEF Q
    <2> QED BY <2>1
  <1>4. Nat \subseteq N
    <2> HIDE DEF N
    <2> QED BY <1>2, <1>3, NumbersAreReached
  <1>5. Q(k)
    <2> HIDE DEF Q
    <2> QED BY <1>1, <1>4
  <1>6. ASSUME k = m PROVE n = k
    <2> DEFINE i == k + 1
    <2>1. i \in 1..m + 1 /\ i \in 1..n + 1 /\ IsRest(e, i, F[i]) /\ T[i][i] /\ i = m + 1
      BY <1>1, <1>5, <1>6
    <2>2. i > n
      <3> HIDE DEF i, Q
      <3>1. IsRead(w, path, F, e, T, i, i, i)
        BY <2>1, PlacesAreRead
      <3> QED BY <2>1, <3>1 DEF IsRead
    <2> QED BY <1>1, <1>5, <2>2
  <1> QED BY <1>5, <1>6

(* A set of numbers has a least one. *)
LEMMA LeastOf ==
    ASSUME NEW U, U \subseteq Nat, U # {}
    PROVE  \E x \in U : \A y \in U : x <= y
  <1> SUFFICES ASSUME \A x \in U : \E y \in U : y < x PROVE FALSE
    <2>1. \A x, y \in U : ~(y < x) => x <= y
      OBVIOUS
    <2> QED BY <2>1
  <1> DEFINE N == {n \in Nat : \A y \in U : y > n}
  <1>1. \A y \in U : y > 0
    BY SMT
  <1>2. 0 \in N
    BY <1>1
  <1>3. ASSUME NEW n \in Nat, n \in N PROVE n + 1 \in N
    <2>1. ASSUME NEW y \in U PROVE y > n + 1
      <3>1. PICK z \in U : z < y
        OBVIOUS
      <3> QED BY <1>3, <3>1
    <2> QED BY <2>1
  <1>4. Nat \subseteq N
    <2> HIDE DEF N
    <2> QED BY <1>2, <1>3, NumbersAreReached
  <1>5. PICK x \in U : TRUE
    OBVIOUS
  <1>6. x \in N
    <2> HIDE DEF N
    <2> QED BY <1>4
  <1>7. x > x /\ x \in Nat
    BY <1>6
  <1> QED BY <1>7

(* What StripSlashes leaves of a prefix that ends in no slash. *)
LEMMA NoSlashIsStripped ==
    ASSUME NEW Ch, NEW s \in Seq(Ch), Len(s) >= 1, s[Len(s)] # "/"
    PROVE  P!StripSlash(s) = s
  <1> DEFINE n == Len(s)
             kept == {i \in 0..Len(s) : \A j \in i + 1..Len(s) : s[j] = "/"}
             least == CHOOSE i \in kept : \A j \in kept : i <= j
  <1>1. n \in Nat
    OBVIOUS
  <1>2. kept = {n}
    <2>1. n \in kept
      BY <1>1
    <2>2. ASSUME NEW i \in kept PROVE i = n
      <3>1. i < n => n \in i + 1..n
        BY <1>1
      <3> QED BY <1>1, <3>1
    <2> QED BY <2>1, <2>2
  <1>3. least = n
    <2>1. \A i \in kept : i = n
      BY <1>2
    <2>2. n \in kept /\ \A j \in kept : n <= j
      BY <1>1, <1>2
    <2> HIDE DEF kept, n
    <2> QED BY <2>1, <2>2
  <1>4. P!StripSlash(s) = SubSeq(s, 1, least)
    BY DEF P!StripSlash
  <1> HIDE DEF least
  <1> QED BY <1>3, <1>4, SubSeqFull

(* What it leaves of one that ends in one slash. *)
LEMMA OneSlashIsStripped ==
    ASSUME NEW Ch, NEW s \in Seq(Ch), NEW n \in Nat, Len(s) = n + 1, n >= 1, s[n + 1] = "/", s[n] # "/"
    PROVE  P!StripSlash(s) = SubSeq(s, 1, n)
  <1> DEFINE kept == {i \in 0..Len(s) : \A j \in i + 1..Len(s) : s[j] = "/"}
             least == CHOOSE i \in kept : \A j \in kept : i <= j
  <1>1. n \in kept
    <2>1. \A j \in n + 1..Len(s) : j = n + 1
      OBVIOUS
    <2> QED BY <2>1
  <1>2. ASSUME NEW i \in kept PROVE n <= i /\ i \in Nat
    <2>1. i < n => n \in i + 1..Len(s)
      OBVIOUS
    <2> QED BY <2>1
  <1>3. least = n
    <2>1. \A i \in kept : (\A j \in kept : i <= j) => i = n
      BY <1>1, <1>2
    <2> HIDE DEF kept
    <2> QED BY <1>1, <1>2, <2>1
  <1>4. P!StripSlash(s) = SubSeq(s, 1, least)
    BY DEF P!StripSlash
  <1> HIDE DEF least
  <1> QED BY <1>3, <1>4

(* The prefix of a pattern ends before its first star. *)
LEMMA StarsEndThePrefix ==
    ASSUME NEW Ch, NEW w \in Seq(Ch), NEW n \in Nat, n < Len(w), w[n + 1] = "*",
           \A i \in 1..n : w[i] # "*"
    PROVE  P!BeforeStar(w) = SubSeq(w, 1, n)
  <1> DEFINE stars == {i \in 1..Len(w) : w[i] = "*"}
             least == CHOOSE i \in stars : \A j \in stars : i <= j
  <1>1. n + 1 \in stars
    OBVIOUS
  <1>2. ASSUME NEW i \in stars PROVE n + 1 <= i /\ i \in Nat
    OBVIOUS
  <1>3. least = n + 1
    <2>1. \A i \in stars : (\A j \in stars : i <= j) => i = n + 1
      BY <1>1, <1>2
    <2> HIDE DEF stars
    <2> QED BY <1>1, <1>2, <2>1
  <1>4. P!BeforeStar(w) = SubSeq(w, 1, least - 1)
    <2>1. stars # {}
      BY <1>1
    <2> QED BY <2>1 DEF P!BeforeStar
  <1> HIDE DEF least
  <1>5. least - 1 = n
    BY <1>3
  <1> QED BY <1>4, <1>5

(* The characters of a pattern before its first star, which begins a component. *)
LEMMA StarsBeginAt ==
    ASSUME NEW Ch, NEW c \in Seq(Component(Ch)), NEW w, NEW at, IsLaid(c, w, at),
           NEW k \in 1..Len(c) + 1, \A l \in Stars(c) : k <= l
    PROVE  \A x \in 1..Len(w) : x < at[k] => w[x] # "*"
  <1>1. /\ \A x \in 1..Len(w) : \/ \E i \in 2..Len(c) : x = at[i] - 1
                                \/ \E i \in 1..Len(c) : x \in at[i]..at[i + 1] - 2
        /\ \A j \in 1..Len(c) + 1 : \A i \in 1..j : i # j => at[i] + 2 <= at[j]
    BY LaidAreApart
  <1>2. \A i \in 1..Len(c) + 1 : at[i] \in Nat
    BY DEF IsLaid
  <1>3. Len(c) \in Nat /\ Len(w) = at[Len(c) + 1] - 2
    BY DEF IsLaid
  <1> SUFFICES ASSUME NEW x \in 1..Len(w), x < at[k] PROVE w[x] # "*"
    OBVIOUS
  <1>5. at[k] \in Nat
    BY <1>2
  <1>6. x \in 1..Len(w) /\ x < at[k] /\ x \in Nat
    OBVIOUS
  <1>7. CASE \E i \in 2..Len(c) : x = at[i] - 1
    <2>1. w[x] = "/"
      BY <1>7 DEF IsLaid
    <2> QED BY <2>1
  <1>8. ASSUME NEW i \in 1..Len(c), x \in at[i]..at[i + 1] - 2
        PROVE  w[x] # "*"
    <2>1. at[i] \in Nat /\ at[i + 1] \in Nat /\ i \in 1..Len(c) + 1 /\ k \in 1..Len(c) + 1
      BY <1>2, <1>3
    <2>2. i < k
      <3>1. CASE k = i
        BY <1>6, <1>8, <2>1, <3>1
      <3>2. CASE k < i
        <4>1. k \in 1..i /\ k # i
          BY <3>2
        <4>2. at[k] + 2 <= at[i]
          BY <1>1, <2>1, <4>1
        <4> QED BY <1>5, <1>6, <1>8, <2>1, <4>2
      <3> QED BY <3>1, <3>2
    <2>3. i \notin Stars(c)
      BY <2>2
    <2>4. c[i] \in Seq(Ch) /\ DOMAIN c = 1..Len(c)
      BY DEF Component
    <2>5. \A t \in 1..Len(c[i]) : c[i][t] # "*"
      BY <2>3, <2>4 DEF Stars, ToSet
    <2> DEFINE t == x - at[i] + 1
    <2>6. t \in 1..Len(c[i]) /\ at[i] + t - 1 = x
      <3> DEFINE l == Len(c[i])
                 a == at[i]
                 b == at[i + 1]
      <3>1. l \in Nat /\ a \in Nat /\ b = a + l + 1 /\ x \in a..b - 2 /\ t = x - a + 1
        BY <1>8, <2>1, <2>4 DEF IsLaid
      <3> HIDE DEF l, a, b, t
      <3>2. t \in 1..l /\ a + t - 1 = x
        BY <3>1
      <3> QED BY <3>2 DEF l, a
    <2> HIDE DEF t
    <2>7. w[x] = c[i][t]
      BY <2>6 DEF IsLaid
    <2> QED BY <2>5, <2>6, <2>7
  <1> QED BY <1>1, <1>6, <1>7, <1>8

(* A path that a pattern below a directory matches is below its prefix. *)
LEMMA MatchedAreOverlapped ==
    ASSUME NEW Ch, Ch \cap Marks = {}, "/" \in Ch, NEW c \in Seq(Component(Ch)), c # <<>>,
           StarsBelowADirectory(c), NEW path \in Seq(Ch), P!matches_path(Written(c), path)
    PROVE  P!Overlaps(Written(c), path)
  <1> DEFINE w == Written(c)
  <1>1. w \in Seq(Ch) /\ \E at : IsLaid(c, w, at)
    BY WrittenIsLaid
  <1> HIDE DEF w
  <1>2. PICK at : IsLaid(c, w, at)
    BY <1>1
  <1>3. \E F, e, T : Reads(Ch, w, path, F, e, T) /\ T[1][1]
    <2>1. P!matches_path(w, path)
      BY DEF w
    <2> QED BY <1>1, <2>1, PatternsAreRead
  <1>4. PICK F, e, T : Reads(Ch, w, path, F, e, T) /\ T[1][1]
    BY <1>3
  <1>5. Len(c) \in Nat \ {0} /\ DOMAIN c = 1..Len(c) /\ Len(w) \in Nat /\ Len(path) \in Nat
    BY <1>1
  <1>6. /\ \A i \in 1..Len(c) : at[i] + 2 <= at[i + 1] /\ at[i] >= 1
        /\ \A j \in 1..Len(c) + 1 : \A i \in 1..j : i # j => at[i] + 2 <= at[j]
        /\ \A i \in 1..Len(c) : \A x \in at[i]..at[i + 1] - 2 : w[x] # "/"
    BY <1>2, LaidAreApart
  <1>7. \A i \in 1..Len(c) + 1 : at[i] \in Nat
    BY <1>2 DEF IsLaid
  <1>8. Len(w) = at[Len(c) + 1] - 2
    BY <1>2 DEF IsLaid
  <1>9. CASE Stars(c) = {}
    <2>1. \A x \in 1..Len(w) : w[x] # "*"
      <3> DEFINE j == Len(c) + 1
      <3>1. j \in 1..Len(c) + 1 /\ \A l \in Stars(c) : j <= l
        BY <1>5, <1>9
      <3>2. \A x \in 1..Len(w) : x < at[j]
        BY <1>7, <1>8, <3>1
      <3> HIDE DEF j
      <3> QED BY <1>2, <3>1, <3>2, StarsBeginAt
    <2>2. Len(path) = Len(w) /\ \A x \in 1..Len(w) : path[x] = w[x]
      <3>1. Len(w) \in 0..Len(w)
        BY <1>5
      <3> QED BY <1>4, <2>1, <3>1, PathsBeginAsThePattern
    <2>3. path = w
      BY <1>1, <2>2, SeqEqual
    <2>4. P!BeforeStar(w) = w
      <3>1. {i \in 1..Len(w) : w[i] = "*"} = {}
        BY <2>1
      <3> QED BY <3>1 DEF P!BeforeStar
    <2>5. Len(w) >= 1 /\ w[Len(w)] # "/"
      <3> DEFINE n == Len(c)
      <3>1. n \in 1..Len(c) /\ at[n] \in Nat /\ at[n + 1] \in Nat
        BY <1>5, <1>7
      <3>2. Len(w) \in at[n]..at[n + 1] - 2 /\ Len(w) >= 1
        BY <1>5, <1>6, <1>8, <3>1
      <3> HIDE DEF n
      <3> QED BY <1>6, <3>1, <3>2
    <2>6. P!StaticPrefix(w) = w
      BY <1>1, <2>4, <2>5, NoSlashIsStripped DEF P!StaticPrefix
    <2>7. P!Overlaps(w, path)
      BY <2>3, <2>6 DEF P!Overlaps
    <2> QED BY <2>7 DEF w
  <1>10. CASE Stars(c) # {}
    <2>1. PICK k \in Stars(c) : \A l \in Stars(c) : k <= l
      <3>1. Stars(c) \subseteq Nat
        BY <1>5 DEF Stars
      <3> QED BY <1>10, <3>1, LeastOf
    <2>2. k \in 1..Len(c) /\ k > 1 /\ c[k][1] = "*"
      BY <1>5, <2>1 DEF Stars, StarsBelowADirectory
    <2> DEFINE n == at[k] - 1
               s == SubSeq(w, 1, n)
               r == n - 1
    <2>4. at[k] \in Nat /\ at[k + 1] \in Nat /\ k - 1 \in 1..Len(c) /\ at[k - 1] \in Nat /\ (k - 1) + 1 = k
      BY <1>5, <1>7, <2>2
    <2>5. at[k - 1] + 2 <= at[k] /\ at[k - 1] >= 1
      BY <1>6, <2>4
    <2>6. n \in Nat /\ n >= 2 /\ r \in Nat /\ r >= 1 /\ n = r + 1
      BY <2>4, <2>5, SMTT(60)
    <2>7. n < Len(w)
      <3> DEFINE j == Len(c) + 1
      <3>1. j \in 1..Len(c) + 1 /\ k \in 1..j /\ k # j
        BY <1>5, <2>2
      <3>2. at[j] \in Nat /\ Len(w) = at[j] - 2
        BY <1>7, <1>8, <3>1
      <3> HIDE DEF j
      <3>3. at[k] + 2 <= at[j]
        BY <1>6, <3>1
      <3> QED BY <2>4, <3>2, <3>3
    <2>3. \A x \in 1..n : w[x] # "*"
      <3>1. \A x \in 1..n : x \in 1..Len(w) /\ x < at[k]
        BY <1>5, <2>4, <2>7
      <3>2. k \in 1..Len(c) + 1
        BY <1>5, <2>2
      <3>3. \A x \in 1..Len(w) : x < at[k] => w[x] # "*"
        BY <1>2, <2>1, <3>2, StarsBeginAt
      <3> QED BY <3>1, <3>3
    <2>8. w[n + 1] = "*"
      <3>1. c[k] \in Component(Ch)
        BY <2>2
      <3>2. 1 \in 1..Len(c[k])
        BY <3>1 DEF Component
      <3>3. at[k] + 1 - 1 = n + 1
        BY <2>4
      <3> HIDE DEF n
      <3>4. w[at[k] + 1 - 1] = c[k][1]
        BY <1>2, <2>2, <3>2 DEF IsLaid
      <3> QED BY <2>2, <3>3, <3>4
    <2>9. P!BeforeStar(w) = s
      <3> HIDE DEF n
      <3> QED BY <1>1, <2>3, <2>6, <2>7, <2>8, StarsEndThePrefix
    <2>10. s \in Seq(Ch) /\ Len(s) = n /\ \A x \in 1..n : s[x] = w[x]
      <3> HIDE DEF n
      <3> QED BY <1>1, <2>6, <2>7, SubSeqProperties
    <2>11. s[n] = "/" /\ s[r] # "/"
      <3>1. w[n] = "/"
        BY <1>2, <2>2 DEF IsLaid
      <3>2. r \in at[k - 1]..at[(k - 1) + 1] - 2
        BY <2>4, <2>5
      <3>3. w[r] # "/"
        BY <1>6, <2>4, <3>2
      <3>4. n \in 1..n /\ r \in 1..n
        BY <2>6
      <3> HIDE DEF n, s, r
      <3> QED BY <2>10, <3>1, <3>3, <3>4
    <2>12. P!StaticPrefix(w) = SubSeq(s, 1, r)
      <3> HIDE DEF n, s, r
      <3>1. P!StripSlash(s) = SubSeq(s, 1, r)
        BY <2>6, <2>10, <2>11, OneSlashIsStripped
      <3> QED BY <2>9, <3>1 DEF P!StaticPrefix
    <2>13. n <= Len(path) /\ \A x \in 1..n : path[x] = w[x]
      <3>1. n \in 0..Len(w)
        BY <1>5, <2>6, <2>7
      <3> HIDE DEF n
      <3> QED BY <1>4, <2>3, <3>1, PathsBeginAsThePattern
    <2> DEFINE p == SubSeq(s, 1, r)
               q == Append(p, "/")
    <2>14. q = s
      <3> HIDE DEF n, s, r
      <3>1. p \in Seq(Ch) /\ Len(p) = r /\ \A x \in 1..r : p[x] = s[x]
        BY <2>6, <2>10, SubSeqProperties
      <3> HIDE DEF p
      <3>2. q \in Seq(Ch) /\ Len(q) = r + 1 /\ q[r + 1] = "/" /\ \A x \in 1..r : q[x] = p[x]
        BY <3>1, AppendProperties
      <3> HIDE DEF q
      <3>3. \A x \in 1..n : q[x] = s[x]
        BY <2>6, <2>11, <3>1, <3>2
      <3>4. Len(q) = Len(s) /\ \A x \in 1..Len(q) : q[x] = s[x]
        BY <2>6, <2>10, <3>2, <3>3
      <3> QED BY <2>10, <3>2, <3>4, SeqEqual
    <2>15. SubSeq(path, 1, n) = s
      <3> HIDE DEF n, s
      <3> DEFINE u == SubSeq(path, 1, n)
      <3>1. u \in Seq(Ch) /\ Len(u) = n /\ \A x \in 1..n : u[x] = path[x]
        BY <2>6, <2>13, SubSeqProperties
      <3> HIDE DEF u
      <3>2. Len(u) = Len(s) /\ \A x \in 1..Len(u) : u[x] = s[x]
        BY <2>10, <2>13, <3>1
      <3>3. u = s
        BY <2>10, <3>1, <3>2, SeqEqual
      <3> QED BY <3>3 DEF u
    <2>16. P!IsPrefix(s, path)
      <3>1. SubSeq(s, 1, Len(s)) = s
        <4> HIDE DEF s
        <4> QED BY <2>10, SubSeqFull
      <3> HIDE DEF s, n
      <3> QED BY <2>10, <2>13, <2>15, <3>1 DEF P!IsPrefix
    <2>17. P!Overlaps(w, path)
      <3>1. P!StaticPrefix(w) = p
        BY <2>12
      <3>2. P!IsPrefix(Append(p, "/"), path)
        <4> HIDE DEF s, p
        <4> QED BY <2>14, <2>16
      <3> HIDE DEF p
      <3> QED BY <3>1, <3>2 DEF P!Overlaps
    <2> QED BY <2>17 DEF w
  <1> QED BY <1>9, <1>10

(* A pattern and a path, of components of whatever characters. *)
IsPathInput(Ch, i) ==
    /\ Ch \cap Marks = {} /\ "/" \in Ch
    /\ i.pattern \in Seq(Component(Ch)) /\ i.pattern # <<>>
    /\ i.path \in Seq(Component(Ch)) /\ i.path # <<>>

(***************************************************************************)
(* What commands may generate and what patches change are separate, for    *)
(* patterns and paths of any number of components, of any characters.      *)
(***************************************************************************)
THEOREM GeneratedPathsAreSeparate ==
    ASSUME NEW Ch, input.of = "path" => IsPathInput(Ch, input)
    PROVE  GeneratedAreSeparate
  <1> SUFFICES ASSUME input.of = "path", StarsBelowADirectory(input.pattern),
                      P!matches_path(Written(input.pattern), Written(input.path))
               PROVE  P!Overlaps(Written(input.pattern), Written(input.path))
    BY DEF GeneratedAreSeparate
  <1> DEFINE c == input.pattern
             p == input.path
  <1>1. IsPathInput(Ch, input)
    OBVIOUS
  <1>2. /\ Ch \cap Marks = {} /\ "/" \in Ch /\ c \in Seq(Component(Ch)) /\ c # <<>>
        /\ p \in Seq(Component(Ch)) /\ p # <<>>
    BY <1>1 DEF IsPathInput
  <1>3. StarsBelowADirectory(c) /\ P!matches_path(Written(c), Written(p))
    OBVIOUS
  <1> HIDE DEF c, p
  <1>4. Written(p) \in Seq(Ch)
    BY <1>2, WrittenIsLaid
  <1> DEFINE u == Written(p)
  <1> HIDE DEF u
  <1>5. u \in Seq(Ch) /\ P!matches_path(Written(c), u)
    BY <1>3, <1>4 DEF u
  <1>6. P!Overlaps(Written(c), u)
    BY <1>2, <1>3, <1>5, MatchedAreOverlapped
  <1> QED BY <1>6 DEF u, c, p

-----------------------------------------------------------------------------
(* Components. *)

(* The rows of Among, each from the next. *)
StandsAt(c, q, i, next, j) ==
    IF i > Len(c) THEN j > Len(q)
    ELSE IF c[i] = <<"*", "*">>
    THEN IF i = Len(c) THEN j <= Len(q) ELSE \E k \in j..Len(q) + 1 : next[k]
    ELSE j <= Len(q) /\ OfComponent(c[i], q[j]) /\ next[j + 1]

Stands(A, c, q) ==
    \A i \in 1..Len(c) + 1 : A[i] = [j \in 1..Len(q) + 1 |-> StandsAt(c, q, i, A[i + 1], j)]

(* There are such rows, and Among is what they hold of the beginnings. *)
LEMMA ComponentsStand ==
    ASSUME NEW B, NEW c \in Seq(B), NEW Ch, NEW q \in Seq(Ch)
    PROVE  \E A : Stands(A, c, q) /\ Among(c, q) = A[1][1]
  <1> DEFINE m == Len(c)
             n == Len(q)
             D == 1..m + 1
             V == [1..n + 1 -> BOOLEAN]
             rank == [d \in D |-> m + 1 - d]
             Value(i, A) == [j \in 1..Len(q) + 1 |-> StandsAt(c, q, i, A[i + 1], j)]
             G == [z \in D \X [D -> V] |-> Value(z[1], z[2])]
             Is(h) == h = [i \in D |-> Value(i, h)]
             h == CHOOSE h : Is(h)
  <1>1. m \in Nat /\ n \in Nat
    OBVIOUS
  <1>2. \A i \in D : \A A : Value(i, A) \in V
    <2>1. ASSUME NEW i \in D, NEW r, NEW j \in 1..n + 1
          PROVE  StandsAt(c, q, i, r, j) \in BOOLEAN
      <3>1. (i > Len(c)) \in BOOLEAN /\ (j > Len(q)) \in BOOLEAN /\ (j <= Len(q)) \in BOOLEAN
        BY <1>1
      <3> QED BY <3>1, Zenon DEF StandsAt
    <2> QED BY <2>1
  <1>3. ASSUME NEW d \in D, NEW f, NEW g, \A e \in D : rank[e] < rank[d] => f[e] = g[e]
        PROVE  Value(d, f) = Value(d, g)
    <2>1. d > m \/ (d + 1 \in D /\ rank[d + 1] < rank[d])
      BY <1>1
    <2>2. CASE d > m
      BY <2>2 DEF StandsAt
    <2>3. CASE d + 1 \in D /\ rank[d + 1] < rank[d]
      <3>1. f[d + 1] = g[d + 1]
        BY <1>3, <2>3
      <3> QED BY <3>1
    <2> QED BY <2>1, <2>2, <2>3
  <1>4. \A d \in D : \A f \in [D -> V] : G[<<d, f>>] = Value(d, f)
    <2> HIDE DEF Value, D, V
    <2> QED OBVIOUS
  <1>5. \E A \in [D -> V] : \A d \in D : A[d] = G[<<d, A>>]
    <2> DEFINE l == m + 1
    <2>1. l \in Nat /\ rank \in [D -> Nat] /\ \A d \in D : rank[d] < l
      BY <1>1
    <2>2. G \in [D \X [D -> V] -> V]
      <3> HIDE DEF D, V, Value
      <3> QED BY <1>2
    <2>3. \A d \in D : \A f, g \in [D -> V] :
            (\A e \in D : rank[e] < rank[d] => f[e] = g[e]) => G[<<d, f>>] = G[<<d, g>>]
      <3> HIDE DEF G, D, V, Value, rank
      <3> QED BY <1>3, <1>4
    <2>4. V # {}
      <3>1. [j \in 1..n + 1 |-> TRUE] \in V
        OBVIOUS
      <3> QED BY <3>1
    <2> HIDE DEF G, D, V, rank, l
    <2>5. Descends(D, V, rank, l, G)
      BY <2>1, <2>2, <2>3, <2>4 DEF Descends
    <2> QED BY <2>5, RecursionExists
  <1>6. PICK A \in [D -> V] : \A d \in D : A[d] = Value(d, A)
    <2> HIDE DEF Value, D, G, V
    <2> QED BY <1>4, <1>5
  <1>7. Is(A)
    <2> HIDE DEF Value, D, V
    <2> QED BY <1>6
  <1>8. Is(h)
    <2> HIDE DEF Is
    <2> QED BY <1>7
  <1>9. Among(c, q) = h[1][1]
    BY Zenon DEF Among, StandsAt
  <1>10. \A d \in D : h[d] = Value(d, h)
    <2> HIDE DEF h, Value, D
    <2> QED BY <1>8
  <1> HIDE DEF h
  <1>11. Stands(h, c, q)
    BY <1>10 DEF Stands
  <1> QED BY <1>9, <1>11

(* A pattern c and a path q of components, and how both are read. *)
Setting(Ch, c, q, w, path, a, b, F, e, T, A) ==
    /\ Reads(Ch, w, path, F, e, T) /\ Stands(A, c, q)
    /\ c \in Seq(PatternComponent) /\ c \in Seq(Component(Ch)) /\ c # <<>> /\ IsLaid(c, w, a)
    /\ q \in Seq(Component(Ch)) /\ q # <<>> /\ IsLaid(q, path, b)

(* The rest of the pattern from component i on matches the rest of the path from *)
(* one of its components on as components say.                                   *)
Agrees(c, q, a, b, F, e, T, A, i) ==
    /\ ~A[i][Len(q) + 1]
    /\ \A x : IsRest(e, x, F[a[i]]) => \A j \in 1..Len(q) : T[x][b[j]] <=> A[i][j]

(* Component i begins at a[i], and ends before a slash or with the characters. *)
IsAt(c, w, a, i) ==
    /\ a[i] \in Nat /\ a[i] >= 1 /\ a[i + 1] \in Nat /\ Len(w) \in Nat
    /\ Len(c[i]) \in Nat /\ Len(c[i]) >= 1 /\ a[i + 1] = a[i] + Len(c[i]) + 1
    /\ i = Len(c) => a[i + 1] = Len(w) + 2
    /\ i < Len(c) => i + 1 \in 1..Len(c) /\ w[a[i + 1] - 1] = "/" /\ a[i + 1] <= Len(w)
    /\ \A x \in a[i]..a[i + 1] - 2 : w[x] # "/"

(* That is where components are laid. *)
LEMMA ComponentsAreAt ==
    ASSUME NEW Ch, NEW c \in Seq(Component(Ch)), NEW w, NEW a, IsLaid(c, w, a), NEW i \in 1..Len(c)
    PROVE  IsAt(c, w, a, i)
  <1> DEFINE k == Len(c) + 1
  <1>1. /\ \A j \in 1..Len(c) : a[j] + 2 <= a[j + 1] /\ a[j] >= 1
        /\ \A j \in 1..Len(c) + 1 : \A l \in 1..j : l # j => a[l] + 2 <= a[j]
        /\ \A j \in 1..Len(c) : \A x \in a[j]..a[j + 1] - 2 : w[x] # "/"
    BY LaidAreApart
  <1>2. /\ k \in 1..Len(c) + 1 /\ i + 1 \in 1..k /\ i \in 1..Len(c) + 1 /\ i + 1 \in 1..Len(c) + 1
        /\ i < Len(c) => i + 1 # k /\ i + 1 \in 2..Len(c)
    OBVIOUS
  <1>3. \A j \in 1..Len(c) + 1 : a[j] \in Nat
    BY DEF IsLaid
  <1>4. a[i] \in Nat /\ a[i + 1] \in Nat /\ a[k] \in Nat
    <2> HIDE DEF k
    <2> QED BY <1>2, <1>3
  <1>5. Len(w) = a[k] - 2
    BY DEF IsLaid
  <1>6. Len(c[i]) \in Nat /\ Len(c[i]) >= 1
    <2>1. c[i] \in Component(Ch)
      OBVIOUS
    <2> QED BY <2>1 DEF Component
  <1>7. a[i + 1] = a[i] + Len(c[i]) + 1
    BY DEF IsLaid
  <1>8. a[i] >= 1
    BY <1>1
  <1>9. i < Len(c) => i + 1 \in 1..Len(c) /\ w[a[i + 1] - 1] = "/"
    BY <1>2 DEF IsLaid
  <1>10. i < Len(c) => a[i + 1] + 2 <= a[k]
    <2> HIDE DEF k
    <2> QED BY <1>1, <1>2
  <1>11. i = Len(c) => a[i + 1] = a[k]
    OBVIOUS
  <1>12. a[i] + 2 <= a[k]
    <2>1. i = Len(c) \/ i < Len(c)
      OBVIOUS
    <2>2. a[i] + 2 <= a[i + 1]
      BY <1>1
    <2> HIDE DEF k
    <2> QED BY <1>4, <1>10, <1>11, <2>1, <2>2
  <1> DEFINE n == Len(w)
             u == a[i]
             v == a[i + 1]
             z == a[k]
  <1>13. n \in Nat /\ (i = Len(c) => v = n + 2) /\ (i < Len(c) => v <= n)
    <2>1. n = z - 2 /\ z \in Nat /\ u \in Nat /\ v \in Nat /\ u >= 1 /\ u + 2 <= z
      BY <1>4, <1>5, <1>8, <1>12
    <2>2. (i = Len(c) => v = z) /\ (i < Len(c) => v + 2 <= z)
      BY <1>10, <1>11
    <2> HIDE DEF n, u, v, z
    <2> QED BY <2>1, <2>2
  <1> HIDE DEF k
  <1> QED BY <1>1, <1>4, <1>6, <1>7, <1>8, <1>9, <1>13, Zenon DEF IsAt, n, v

(* The place after a component of the pattern, at a place of a component of the  *)
(* path or at the one after it.                                                  *)
LEMMA AfterComponents ==
    ASSUME NEW Ch, NEW c, NEW q, NEW w, NEW path, NEW a, NEW b, NEW F, NEW e, NEW T, NEW A,
           Setting(Ch, c, q, w, path, a, b, F, e, T, A),
           NEW i \in 1..Len(c), i < Len(c) => Agrees(c, q, a, b, F, e, T, A, i + 1),
           NEW x, IsRest(e, x, F[a[i + 1] - 1]),
           NEW j \in 1..Len(q), NEW y \in b[j]..b[j + 1] - 1
    PROVE  T[x][y] <=> (y = b[j + 1] - 1 /\ A[i + 1][j + 1])
  <1> DEFINE m == Len(c)
             n == Len(q)
             z == a[i + 1] - 1
             N == Len(path)
  <1>1. IsAt(c, w, a, i) /\ IsAt(q, path, b, j)
    BY ComponentsAreAt DEF Setting
  <1>2. m \in Nat /\ n \in Nat
    BY DEF Setting
  <1>3. z \in 1..Len(w) + 1 /\ (i < m => z <= Len(w)) /\ (i = m => z = Len(w) + 1)
    <2> DEFINE u == a[i]
               v == a[i + 1]
               l == Len(c[i])
               k == Len(w)
    <2>1. u \in Nat /\ u >= 1 /\ v \in Nat /\ k \in Nat /\ l \in Nat /\ l >= 1 /\ v = u + l + 1
      BY <1>1, Zenon DEF IsAt
    <2>2. (i = m => v = k + 2) /\ (i < m => v <= k)
      BY <1>1, Zenon DEF IsAt
    <2>3. i = m \/ i < m
      BY <1>2
    <2> HIDE DEF u, v, l, k, m
    <2>4. v - 1 \in 1..k + 1 /\ (i < m => v - 1 <= k) /\ (i = m => v - 1 = k + 1)
      BY <2>1, <2>2, <2>3
    <2> QED BY <2>4 DEF v, k
  <1>4. b[j] \in Nat /\ b[j] >= 1 /\ b[j + 1] \in Nat /\ N \in Nat
    BY <1>1 DEF IsAt
  <1>5. (j = n => b[j + 1] = N + 2) /\ (j < n => b[j + 1] <= N)
    BY <1>1 DEF IsAt
  <1>6. j = n \/ j < n
    BY <1>2
  <1>7. y \in 1..N + 1 /\ (y < b[j + 1] - 1 => y \in b[j]..b[j + 1] - 2 /\ y <= N)
    BY <1>4, <1>5, <1>6, SMTT(60)
  <1>8. y < b[j + 1] - 1 => path[y] # "/"
    BY <1>1, <1>7 DEF IsAt
  <1>9. IsRead(w, path, F, e, T, z, x, y)
    <2> HIDE DEF z
    <2>1. z \in 1..Len(w) + 1 /\ IsRest(e, x, F[z]) /\ y \in 1..Len(path) + 1
      BY <1>3, <1>7 DEF z
    <2>2. Reads(Ch, w, path, F, e, T)
      BY DEF Setting
    <2> QED BY <2>1, <2>2, PlacesAreRead
  <1>10. CASE i = m
    <2>1. T[x][y] <=> y > N
      <3> HIDE DEF z
      <3> QED BY <1>3, <1>9, <1>10 DEF IsRead
    <2>2. A[i + 1][j + 1] <=> j + 1 > n
      <3> DEFINE k == i + 1
                 l == j + 1
      <3>1. k \in 1..m + 1 /\ l \in 1..n + 1 /\ k > m
        BY <1>2, <1>10
      <3>2. A[k] = [r \in 1..n + 1 |-> StandsAt(c, q, k, A[k + 1], r)]
        <4> HIDE DEF k
        <4> QED BY <3>1 DEF Setting, Stands
      <3> HIDE DEF k, l
      <3>3. A[k][l] = (l > n)
        BY <3>1, <3>2 DEF StandsAt
      <3> QED BY <3>3 DEF k, l
    <2>3. y > N <=> (y = b[j + 1] - 1 /\ j = n)
      BY <1>4, <1>5, <1>6, <1>7
    <2>4. j = n <=> j + 1 > n
      BY <1>2
    <2> QED BY <2>1, <2>2, <2>3, <2>4
  <1>11. CASE i < m
    <2>1. i + 1 \in 1..m /\ w[z] = "/" /\ z + 1 = a[i + 1] /\ z <= Len(w)
      <3>1. a[i + 1] \in Nat
        BY <1>1 DEF IsAt
      <3> QED BY <1>1, <1>3, <1>11, <3>1 DEF IsAt
    <2>2. /\ IsRest(e, x + 1, F[z + 1])
          /\ T[x][y] <=> (y <= N /\ path[y] = "/" /\ T[x + 1][y + 1])
      <3> HIDE DEF z
      <3> QED BY <1>9, <2>1 DEF IsRead
    <2>3. IsRest(e, x + 1, F[a[i + 1]])
      BY <2>1, <2>2
    <2>4. Agrees(c, q, a, b, F, e, T, A, i + 1)
      BY <1>11
    <2>5. CASE y < b[j + 1] - 1
      BY <1>8, <2>2, <2>5
    <2>6. CASE y = b[j + 1] - 1 /\ j = n
      <3>1. y > N
        BY <1>4, <1>5, <2>6
      <3>2. ~(y <= N)
        BY <1>4, <1>7, <3>1
      <3>3. ~A[i + 1][j + 1]
        BY <2>4, <2>6 DEF Agrees
      <3> QED BY <2>2, <3>2, <3>3
    <2>7. CASE y = b[j + 1] - 1 /\ j < n
      <3>1. y <= N /\ y + 1 = b[j + 1] /\ j + 1 \in 1..n /\ path[y] = "/"
        <4>1. j + 1 \in 1..n /\ path[b[j + 1] - 1] = "/"
          BY <1>1, <2>7, Zenon DEF IsAt
        <4> QED BY <1>4, <1>5, <2>7, <4>1, SMTT(60)
      <3>2. \A l \in 1..n : T[x + 1][b[l]] <=> A[i + 1][l]
        BY <2>3, <2>4 DEF Agrees
      <3>3. T[x + 1][b[j + 1]] <=> A[i + 1][j + 1]
        BY <3>1, <3>2
      <3> QED BY <2>2, <2>7, <3>1, <3>3
    <2> QED BY <1>4, <1>6, <2>5, <2>6, <2>7
  <1> QED BY <1>2, <1>10, <1>11

(* A star takes the rest of a component and nothing of the next. *)
LEMMA StarsTakeTheRest ==
    ASSUME NEW Ch, NEW c, NEW q, NEW w, NEW path, NEW a, NEW b, NEW F, NEW e, NEW T, NEW A,
           Setting(Ch, c, q, w, path, a, b, F, e, T, A),
           NEW i \in 1..Len(c), i < Len(c) => Agrees(c, q, a, b, F, e, T, A, i + 1),
           NEW x, IsRest(e, x, F[a[i + 1] - 1]),
           NEW j \in 1..Len(q), NEW y \in b[j]..b[j + 1] - 1
    PROVE  (\E k \in y..Len(path) + 1 : (\A l \in y..k - 1 : path[l] # "/") /\ T[x][k])
             <=> A[i + 1][j + 1]
  <1> DEFINE N == Len(path)
             z == b[j + 1] - 1
  <1>1. IsAt(q, path, b, j)
    BY ComponentsAreAt DEF Setting
  <1>2. b[j] \in Nat /\ b[j] >= 1 /\ b[j + 1] \in Nat /\ N \in Nat
    BY <1>1 DEF IsAt
  <1>3. (j = Len(q) => b[j + 1] = N + 2) /\ (j < Len(q) => b[j + 1] <= N /\ path[z] = "/")
    BY <1>1 DEF IsAt
  <1>4. j = Len(q) \/ j < Len(q)
    BY DEF Setting
  <1>5. \A l \in b[j]..b[j + 1] - 2 : path[l] # "/"
    BY <1>1 DEF IsAt
  <1>6. ASSUME NEW k \in b[j]..b[j + 1] - 1 PROVE T[x][k] <=> (k = z /\ A[i + 1][j + 1])
    BY <1>6, AfterComponents
  <1>7. z \in y..N + 1 /\ z \in b[j]..b[j + 1] - 1 /\ \A l \in y..z - 1 : l \in b[j]..b[j + 1] - 2
    <2> DEFINE u == b[j]
               v == b[j + 1]
    <2>1. u \in Nat /\ u >= 1 /\ v \in Nat /\ N \in Nat /\ v <= N + 2 /\ y \in u..v - 1
      BY <1>2, <1>3, <1>4
    <2> HIDE DEF u, v, N
    <2>2. v - 1 \in y..N + 1 /\ v - 1 \in u..v - 1 /\ \A l \in y..(v - 1) - 1 : l \in u..v - 2
      BY <2>1
    <2> QED BY <2>2 DEF u, v
  <1>8. A[i + 1][j + 1] => (\A l \in y..z - 1 : path[l] # "/") /\ T[x][z]
    BY <1>5, <1>6, <1>7
  <1>9. ASSUME NEW k \in y..N + 1, \A l \in y..k - 1 : path[l] # "/", T[x][k]
        PROVE  A[i + 1][j + 1]
    <2>1. k <= z
      <3>1. CASE j = Len(q)
        BY <1>2, <1>3, <3>1
      <3>2. CASE j < Len(q)
        <4>1. k > z => z \in y..k - 1
          BY <1>2, SMTT(60)
        <4>2. path[z] = "/"
          BY <1>3, <3>2
        <4> HIDE DEF z
        <4>3. ~(k > z)
          BY <1>9, <4>1, <4>2
        <4> QED BY <1>2, <4>3 DEF z
      <3> QED BY <1>4, <3>1, <3>2
    <2>2. k \in b[j]..b[j + 1] - 1
      BY <1>2, <2>1
    <2> QED BY <1>6, <1>9, <2>2
  <1> HIDE DEF z
  <1> QED BY <1>7, <1>8, <1>9

(* `**/` takes whole components. *)
LEMMA DirectoriesAreTaken ==
    ASSUME NEW Ch, NEW c, NEW q, NEW w, NEW path, NEW a, NEW b, NEW F, NEW e, NEW T, NEW A,
           Setting(Ch, c, q, w, path, a, b, F, e, T, A),
           NEW i \in 1..Len(c), Agrees(c, q, a, b, F, e, T, A, i + 1),
           NEW x, IsRest(e, x, F[a[i + 1]]), NEW j \in 1..Len(q)
    PROVE  (T[x][b[j]] \/ \E k \in b[j]..Len(path) : path[k] = "/" /\ T[x][k + 1])
             <=> \E l \in j..Len(q) + 1 : A[i + 1][l]
  <1> DEFINE N == Len(path)
             n == Len(q)
             B == A[i + 1]
  <1>1. n \in Nat /\ j \in j..n + 1
    BY DEF Setting
  <1>2. ~B[n + 1] /\ \A l \in 1..n : T[x][b[l]] <=> B[l]
    BY DEF Agrees
  <1>3. \A l \in 1..n : IsAt(q, path, b, l)
    BY ComponentsAreAt DEF Setting
  <1>4. /\ \A k \in 1..N : \/ \E l \in 2..n : k = b[l] - 1
                           \/ \E l \in 1..n : k \in b[l]..b[l + 1] - 2
        /\ \A l \in 1..n + 1 : \A k \in 1..l : k # l => b[k] + 2 <= b[l]
    BY LaidAreApart DEF Setting
  <1>5. \A l \in 1..n : b[l] \in Nat /\ b[l] >= 1 /\ N \in Nat
    BY <1>3 DEF IsAt
  <1> HIDE DEF B
  <1>6. ASSUME NEW k \in b[j]..N, path[k] = "/", T[x][k + 1]
        PROVE  \E l \in j..n + 1 : B[l]
    <2>1. k \in 1..N
      BY <1>5
    <2>2. ASSUME NEW l \in 1..n, k \in b[l]..b[l + 1] - 2 PROVE FALSE
      BY <1>3, <1>6, <2>2 DEF IsAt
    <2>3. PICK l \in 2..n : k = b[l] - 1
      BY <1>4, <2>1, <2>2
    <2>4. l \in 1..n /\ b[l] \in Nat /\ b[j] \in Nat
      BY <1>5, <2>3
    <2>5. l > j
      <3>1. l <= j => l = j \/ (l \in 1..j /\ l # j)
        BY <1>1, <2>4
      <3>2. j \in 1..n + 1
        BY <1>1
      <3>3. l \in 1..j /\ l # j => b[l] + 2 <= b[j]
        BY <1>4, <3>2
      <3>4. b[l] > b[j]
        BY <1>6, <2>3, <2>4
      <3>5. ~(b[l] + 2 <= b[j]) /\ l # j
        BY <2>4, <3>4
      <3> QED BY <2>4, <3>1, <3>3, <3>5
    <2>6. l \in j..n + 1 /\ k + 1 = b[l]
      BY <1>1, <2>3, <2>4, <2>5, SMTT(60)
    <2>7. B[l]
      BY <1>2, <1>6, <2>4, <2>6
    <2> QED BY <2>6, <2>7
  <1>7. ASSUME NEW l \in j..n + 1, B[l], l # j
        PROVE  \E k \in b[j]..N : path[k] = "/" /\ T[x][k + 1]
    <2>1. l # n + 1
      BY <1>2, <1>7
    <2>2. l \in 2..n /\ l \in 1..n /\ j \in 1..l /\ l \in 1..n + 1
      BY <1>1, <1>7, <2>1
    <2>3. b[l] \in Nat /\ b[j] \in Nat /\ N \in Nat /\ b[j] + 2 <= b[l]
      BY <1>4, <1>5, <1>7, <2>2
    <2> DEFINE r == l - 1
    <2>4. r \in 1..n /\ r < n /\ r + 1 = l
      BY <1>1, <2>2
    <2>5. path[b[l] - 1] = "/" /\ b[l] <= N
      <3>1. IsAt(q, path, b, r)
        <4> HIDE DEF r
        <4> QED BY <1>3, <2>4
      <3> HIDE DEF r
      <3>2. path[b[r + 1] - 1] = "/" /\ b[r + 1] <= N
        BY <2>4, <3>1, Zenon DEF IsAt
      <3> QED BY <2>4, <3>2
    <2> DEFINE k == b[l] - 1
    <2>6. k \in b[j]..N /\ k + 1 = b[l]
      <3> DEFINE u == b[j]
                 v == b[l]
      <3>1. u \in Nat /\ v \in Nat /\ N \in Nat /\ v <= N /\ u + 2 <= v /\ k = v - 1
        BY <2>3, <2>5
      <3> HIDE DEF u, v, N, k
      <3>2. k \in u..N /\ k + 1 = v
        BY <3>1
      <3> QED BY <3>2 DEF u, v
    <2>7. T[x][b[l]]
      BY <1>2, <1>7, <2>2
    <2> HIDE DEF k
    <2> QED BY <2>5, <2>6, <2>7 DEF k
  <1>8. T[x][b[j]] <=> B[j]
    BY <1>2
  <1> HIDE DEF n, N
  <1> QED BY <1>1, <1>6, <1>7, <1>8 DEF B, n, N

(* From one component of the pattern to the one before it. *)
LEMMA ComponentsAgree ==
    ASSUME NEW Ch, NEW c, NEW q, NEW w, NEW path, NEW a, NEW b, NEW F, NEW e, NEW T, NEW A,
           Setting(Ch, c, q, w, path, a, b, F, e, T, A),
           NEW i \in 1..Len(c), i < Len(c) => Agrees(c, q, a, b, F, e, T, A, i + 1)
    PROVE  Agrees(c, q, a, b, F, e, T, A, i)
  <1> DEFINE m == Len(c)
             n == Len(q)
             N == Len(path)
             d == c[i]
             s == a[i]
             z == a[i + 1] - 1
  <1>1. m \in Nat /\ n \in Nat /\ (i = m \/ i < m)
    BY DEF Setting
  <1>2. d \in PatternComponent /\ IsAt(c, w, a, i)
    BY ComponentsAreAt DEF Setting
  <1>3. s \in Nat /\ s >= 1 /\ Len(w) \in Nat /\ Len(d) \in Nat /\ Len(d) >= 1 /\ z = s + Len(d)
    BY <1>2 DEF IsAt
  <1>4. (i = m => z = Len(w) + 1) /\ (i < m => z < Len(w) /\ w[z] = "/" /\ i + 1 \in 1..m)
    <2> DEFINE v == a[i + 1]
               k == Len(w)
    <2>1. v \in Nat /\ k \in Nat /\ (i = m => v = k + 2) /\ (i < m => v <= k)
      BY <1>2, Zenon DEF IsAt
    <2>2. i < m => w[z] = "/" /\ i + 1 \in 1..m
      BY <1>2, Zenon DEF IsAt
    <2> HIDE DEF v, k
    <2>3. (i = m => v - 1 = k + 1) /\ (i < m => v - 1 < k)
      BY <2>1
    <2> QED BY <2>2, <2>3 DEF v, k
  <1>5. \A t \in 1..Len(d) : w[s + t - 1] = d[t]
    BY DEF Setting, IsLaid
  <1>6. \A j \in 1..n + 1 : A[i][j] = StandsAt(c, q, i, A[i + 1], j)
    <2> DEFINE next == A[i + 1]
    <2>1. A[i] = [j \in 1..n + 1 |-> StandsAt(c, q, i, next, j)]
      BY DEF Setting, Stands
    <2> HIDE DEF next, n
    <2>2. \A j \in 1..n + 1 : A[i][j] = StandsAt(c, q, i, next, j)
      BY <2>1
    <2> QED BY <2>2 DEF next
  <1>7. ~(i > m) /\ i # m + 1
    BY <1>1
  <1>8. ~A[i][n + 1]
    <2>1. n + 1 \in 1..n + 1 /\ ~(n + 1 <= n) /\ \A k \in n + 1..n + 1 : k = n + 1
      BY <1>1
    <2>2. A[i][n + 1] = StandsAt(c, q, i, A[i + 1], n + 1)
      <3> DEFINE l == n + 1
      <3> HIDE DEF l
      <3>1. A[i][l] = StandsAt(c, q, i, A[i + 1], l)
        BY <1>6, <2>1 DEF l
      <3> QED BY <3>1 DEF l
    <2>3. i < m => ~A[i + 1][n + 1]
      BY DEF Agrees
    <2> QED BY <1>1, <1>7, <2>1, <2>2, <2>3, Zenon DEF StandsAt
  <1> SUFFICES ASSUME NEW x, IsRest(e, x, F[s]), NEW j \in 1..n
               PROVE  T[x][b[j]] <=> A[i][j]
    BY <1>8 DEF Agrees
  <1>9. IsAt(q, path, b, j) /\ q[j] \in Component(Ch)
    BY ComponentsAreAt DEF Setting
  <1> DEFINE y == b[j]
             g == q[j]
  <1>10. y \in Nat /\ y >= 1 /\ N \in Nat /\ b[j + 1] \in Nat /\ Len(g) \in Nat /\ Len(g) >= 1
         /\ b[j + 1] = y + Len(g) + 1
    BY <1>9, Zenon DEF IsAt
  <1>11. (j = n => b[j + 1] = N + 2) /\ (j < n => b[j + 1] <= N)
    BY <1>9, Zenon DEF IsAt
  <1>12. y \in 1..N /\ y <= N /\ y \in 1..N + 1 /\ y \in b[j]..b[j + 1] - 1 /\ y + 1 \in b[j]..b[j + 1] - 1
    <2> DEFINE r == b[j + 1]
               l == Len(g)
    <2>1. y \in Nat /\ y >= 1 /\ N \in Nat /\ l \in Nat /\ l >= 1 /\ r = y + l + 1
          /\ (r = N + 2 \/ r <= N)
      BY <1>1, <1>10, <1>11
    <2> HIDE DEF y, N, r, l
    <2>2. y \in 1..N /\ y <= N /\ y \in 1..N + 1 /\ y \in y..r - 1 /\ y + 1 \in y..r - 1
      BY <2>1
    <2> QED BY <2>2 DEF y, r
  <1>13. path[y] = g[1]
    <2>1. 1 \in 1..Len(g) /\ y + 1 - 1 = y
      BY <1>10
    <2>2. path[b[j] + 1 - 1] = g[1]
      BY <2>1 DEF Setting, IsLaid
    <2> QED BY <2>1, <2>2
  <1>14. A[i][j] = StandsAt(c, q, i, A[i + 1], j)
    BY <1>1, <1>6
  <1>15. IsRead(w, path, F, e, T, s, x, y) /\ s <= Len(w)
    <2>1. s \in 1..Len(w) + 1 /\ s <= Len(w)
      BY <1>1, <1>3, <1>4
    <2>2. Reads(Ch, w, path, F, e, T)
      BY DEF Setting
    <2> HIDE DEF s, y
    <2> QED BY <1>12, <2>1, <2>2, PlacesAreRead
  <1>16. ASSUME NEW u, IsRest(e, u, F[z]), NEW k \in b[j]..b[j + 1] - 1
         PROVE  /\ T[u][k] <=> (k = b[j + 1] - 1 /\ A[i + 1][j + 1])
                /\ (\E r \in k..N + 1 : (\A l \in k..r - 1 : path[l] # "/") /\ T[u][r])
                     <=> A[i + 1][j + 1]
    BY <1>16, AfterComponents, StarsTakeTheRest
  <1>17. d # <<"*", "*">> => (A[i][j] <=> (OfComponent(d, g) /\ A[i + 1][j + 1]))
    <2>1. j <= n
      BY <1>1
    <2> QED BY <1>7, <1>14, <2>1, Zenon DEF StandsAt
  <1>18. CASE d = <<"a">>
    <2>1. Len(d) = 1 /\ d[1] = "a" /\ d # <<"*", "*">> /\ d # <<"*">> /\ d # <<"a", "*">>
      BY <1>18
    <2>2. w[s] = "a" /\ z = s + 1
      <3>1. 1 \in 1..Len(d) /\ s + 1 - 1 = s /\ z = s + 1
        BY <1>3, <2>1
      <3>2. w[s + 1 - 1] = "a"
        BY <1>5, <2>1, <3>1
      <3> QED BY <3>1, <3>2
    <2>3. /\ IsRest(e, x + 1, F[s + 1])
          /\ T[x][y] <=> (y <= N /\ path[y] = "a" /\ T[x + 1][y + 1])
      <3> HIDE DEF s, y
      <3> QED BY <1>15, <2>2 DEF IsRead
    <2>4. T[x + 1][y + 1] <=> (y + 1 = b[j + 1] - 1 /\ A[i + 1][j + 1])
      <3>1. IsRest(e, x + 1, F[z])
        BY <2>2, <2>3
      <3> DEFINE u == x + 1
                 k == y + 1
      <3> HIDE DEF u, k, z
      <3>2. T[u][k] <=> (k = b[j + 1] - 1 /\ A[i + 1][j + 1])
        BY <1>12, <1>16, <3>1 DEF u, k
      <3> QED BY <3>2 DEF u, k
    <2>5. y + 1 = b[j + 1] - 1 <=> Len(g) = 1
      <3> DEFINE l == Len(g)
                 v == b[j + 1]
      <3>1. y \in Nat /\ l \in Nat /\ v = y + l + 1
        BY <1>10
      <3> HIDE DEF l, v, y
      <3>2. y + 1 = v - 1 <=> l = 1
        BY <3>1
      <3> QED BY <3>2 DEF l, v
    <2>6. OfComponent(d, g) <=> (Len(g) = 1 /\ g[1] = "a")
      <3>1. g \in Seq(Ch)
        BY <1>9 DEF Component
      <3>2. Len(g) = 1 /\ g[1] = "a" => g = <<"a">>
        BY <3>1
      <3>3. OfComponent(d, g) <=> d = g
        BY <2>1 DEF OfComponent
      <3> QED BY <1>18, <2>1, <3>2, <3>3
    <2>7. T[x][y] <=> A[i][j]
      <3> HIDE DEF y, g, d, s, z
      <3> QED BY <1>12, <1>13, <1>17, <2>1, <2>3, <2>4, <2>5, <2>6
    <2> QED BY <2>7
  <1> DEFINE After(k) == \E r \in k..N + 1 : (\A l \in k..r - 1 : path[l] # "/") /\ T[x + 1][r]
  <1>19. CASE d = <<"*">>
    <2>1. Len(d) = 1 /\ d[1] = "*" /\ d # <<"*", "*">>
      BY <1>19
    <2>2. w[s] = "*" /\ z = s + 1
      <3>1. 1 \in 1..Len(d) /\ s + 1 - 1 = s /\ z = s + 1
        BY <1>3, <2>1
      <3>2. w[s + 1 - 1] = "*"
        BY <1>5, <2>1, <3>1
      <3> QED BY <3>1, <3>2
    <2>3. P!At(w, s + 1) # "*"
      <3> HIDE DEF s, z
      <3> QED BY <1>1, <1>3, <1>4, <2>2 DEF P!At
    <2>4. IsRest(e, x + 1, F[s + 1]) /\ (T[x][y] <=> After(y))
      <3> HIDE DEF s, y
      <3> QED BY <1>15, <2>2, <2>3 DEF IsRead
    <2>5. After(y) <=> A[i + 1][j + 1]
      <3>1. IsRest(e, x + 1, F[z])
        BY <2>2, <2>4
      <3> DEFINE u == x + 1
      <3> HIDE DEF u, z
      <3>2. (\E r \in y..N + 1 : (\A l \in y..r - 1 : path[l] # "/") /\ T[u][r]) <=> A[i + 1][j + 1]
        BY <1>12, <1>16, <3>1 DEF u
      <3> QED BY <3>2 DEF u
    <2>6. OfComponent(d, g)
      BY <1>19 DEF OfComponent
    <2>7. T[x][y] <=> A[i][j]
      <3> HIDE DEF y, g, d, s, z, After
      <3> QED BY <1>17, <2>1, <2>4, <2>5, <2>6
    <2> QED BY <2>7
  <1>20. CASE d = <<"a", "*">>
    <2>1. Len(d) = 2 /\ d[1] = "a" /\ d[2] = "*" /\ d # <<"*", "*">> /\ d # <<"*">>
      BY <1>20
    <2>2. w[s] = "a" /\ w[s + 1] = "*" /\ z = s + 2
      <3>1. 1 \in 1..Len(d) /\ s + 1 - 1 = s /\ z = s + 2 /\ 2 \in 1..Len(d) /\ s + 2 - 1 = s + 1
        BY <1>3, <2>1
      <3>2. w[s + 1 - 1] = "a" /\ w[s + 2 - 1] = "*"
        BY <1>5, <2>1, <3>1
      <3> QED BY <3>1, <3>2
    <2>3. /\ IsRest(e, x + 1, F[s + 1])
          /\ T[x][y] <=> (y <= N /\ path[y] = "a" /\ T[x + 1][y + 1])
      <3> HIDE DEF s, y
      <3> QED BY <1>15, <2>2 DEF IsRead
    <2> DEFINE u == x + 1
               o == s + 1
               k == y + 1
               Then(l) == \E r \in l..N + 1 : (\A v \in l..r - 1 : path[v] # "/") /\ T[u + 1][r]
    <2>4. o \in 1..Len(w) + 1 /\ o <= Len(w) /\ o + 1 = z
      <3> DEFINE l == Len(w)
      <3>1. s \in Nat /\ l \in Nat /\ z = s + 2 /\ o = s + 1 /\ (z = l + 1 \/ z < l)
        BY <1>1, <1>3, <1>4, <2>2
      <3> HIDE DEF s, z, o, l
      <3>2. o \in 1..l + 1 /\ o <= l /\ o + 1 = z
        BY <3>1
      <3> QED BY <3>2 DEF l
    <2>5. k \in 1..N + 1 /\ k \in b[j]..b[j + 1] - 1
      BY <1>10, <1>12, SMTT(60)
    <2>6. P!At(w, o + 1) # "*"
      <3> HIDE DEF z, o
      <3> QED BY <1>1, <1>3, <1>4, <2>4 DEF P!At
    <2>7. IsRead(w, path, F, e, T, o, u, k)
      <3>1. Reads(Ch, w, path, F, e, T) /\ IsRest(e, u, F[o])
        BY <2>3 DEF Setting
      <3> HIDE DEF o, u, k
      <3> QED BY <2>4, <2>5, <3>1, PlacesAreRead
    <2>8. IsRest(e, u + 1, F[o + 1]) /\ (T[u][k] <=> Then(k))
      <3>1. w[o] = "*"
        BY <2>2
      <3> HIDE DEF o, u, k
      <3> QED BY <2>4, <2>6, <2>7, <3>1 DEF IsRead
    <2>9. Then(k) <=> A[i + 1][j + 1]
      <3>1. IsRest(e, u + 1, F[z])
        BY <2>4, <2>8
      <3> DEFINE v == u + 1
      <3> HIDE DEF v, z, k, u, o
      <3>2. (\E r \in k..N + 1 : (\A l \in k..r - 1 : path[l] # "/") /\ T[v][r]) <=> A[i + 1][j + 1]
        BY <1>16, <2>5, <3>1 DEF v
      <3> QED BY <3>2 DEF v
    <2>10. OfComponent(d, g) <=> g[1] = "a"
      <3>1. g = <<"a", "*">> => g[1] = "a"
        OBVIOUS
      <3> QED BY <1>20, <2>1, <3>1 DEF OfComponent
    <2>11. T[u][k] <=> A[i + 1][j + 1]
      <3> HIDE DEF Then, u, k
      <3> QED BY <2>8, <2>9
    <2>12. T[x][y] <=> (y <= N /\ path[y] = "a" /\ A[i + 1][j + 1])
      <3> HIDE DEF y
      <3> QED BY <2>3, <2>11
    <2>13. T[x][y] <=> A[i][j]
      <3> HIDE DEF y, g, d, s, z, u, k, o
      <3> QED BY <1>12, <1>13, <1>17, <2>1, <2>10, <2>12
    <2> QED BY <2>13
  <1>21. CASE d = <<"*", "*">>
    <2>1. Len(d) = 2 /\ d[1] = "*" /\ d[2] = "*"
      BY <1>21
    <2>2. w[s] = "*" /\ w[s + 1] = "*" /\ z = s + 2
      <3>1. 1 \in 1..Len(d) /\ s + 1 - 1 = s /\ z = s + 2 /\ 2 \in 1..Len(d) /\ s + 2 - 1 = s + 1
        BY <1>3, <2>1
      <3>2. w[s + 1 - 1] = "*" /\ w[s + 2 - 1] = "*"
        BY <1>5, <2>1, <3>1
      <3> QED BY <3>1, <3>2
    <2>3. s + 1 <= Len(w) /\ P!At(w, s + 1) = "*"
      <3>1. s + 1 <= Len(w)
        BY <1>1, <1>3, <1>4, <2>2
      <3> HIDE DEF s
      <3> QED BY <2>2, <3>1 DEF P!At
    <2>4. CASE i = m
      <3>1. ~P!DirsAt(w, s)
        <4>1. ~(s + 2 <= Len(w))
          BY <1>3, <1>4, <2>2, <2>4
        <4> HIDE DEF s
        <4> QED BY <4>1 DEF P!DirsAt, P!At
      <3>2. IsRest(e, x + 1, F[s + 2]) /\ (T[x][y] <=> \E k \in y..N + 1 : T[x + 1][k])
        <4> HIDE DEF s, y
        <4> QED BY <1>15, <2>2, <2>3, <3>1 DEF IsRead
      <3> DEFINE u == x + 1
                 k == N + 1
      <3>3. T[u][k]
        <4>1. z \in 1..Len(w) + 1 /\ k \in 1..N + 1 /\ z = Len(w) + 1 /\ k > N
          <5>1. N \in Nat /\ Len(w) \in Nat /\ z = Len(w) + 1
            BY <1>3, <1>4, <1>10, <2>4
          <5> HIDE DEF z, N
          <5> QED BY <5>1 DEF k
        <4>2. Reads(Ch, w, path, F, e, T) /\ IsRest(e, u, F[z])
          BY <2>2, <3>2 DEF Setting
        <4> HIDE DEF z, u, k
        <4>3. IsRead(w, path, F, e, T, z, u, k)
          BY <4>1, <4>2, PlacesAreRead
        <4> QED BY <4>1, <4>3 DEF IsRead
      <3>4. k \in y..N + 1
        BY <1>10, <1>12
      <3>5. T[x][y]
        <4> HIDE DEF k, y
        <4> QED BY <3>2, <3>3, <3>4
      <3>6. A[i][j]
        <4>1. j <= n
          BY <1>1
        <4> QED BY <1>7, <1>14, <1>21, <2>4, <4>1, Zenon DEF StandsAt
      <3> QED BY <3>5, <3>6
    <2>5. CASE i < m
      <3>1. P!DirsAt(w, s) /\ s + 3 = a[i + 1]
        <4>1. s + 2 <= Len(w) /\ w[s + 2] = "/"
          BY <1>3, <1>4, <2>2, <2>5
        <4>2. a[i + 1] \in Nat
          BY <1>2, Zenon DEF IsAt
        <4>3. s + 3 = a[i + 1]
          BY <1>3, <2>2, <4>2, SMTT(60)
        <4> HIDE DEF s
        <4> QED BY <4>1, <4>3 DEF P!DirsAt, P!At
      <3>2. /\ IsRest(e, x + 1, F[s + 3])
            /\ T[x][y] <=> (T[x + 1][y] \/ \E k \in y..N : path[k] = "/" /\ T[x + 1][k + 1])
        <4> HIDE DEF s, y
        <4> QED BY <1>15, <2>2, <2>3, <3>1 DEF IsRead
      <3>3. (T[x + 1][y] \/ \E k \in y..N : path[k] = "/" /\ T[x + 1][k + 1])
              <=> \E l \in j..n + 1 : A[i + 1][l]
        <4> DEFINE u == x + 1
        <4>1. IsRest(e, u, F[a[i + 1]])
          BY <3>1, <3>2
        <4>2. Agrees(c, q, a, b, F, e, T, A, i + 1)
          BY <2>5
        <4> HIDE DEF u, d, s, z, g
        <4>3. (T[u][y] \/ \E k \in y..N : path[k] = "/" /\ T[u][k + 1])
                <=> \E l \in j..n + 1 : A[i + 1][l]
          BY <4>1, <4>2, DirectoriesAreTaken
        <4> QED BY <4>3 DEF u
      <3>4. A[i][j] <=> \E l \in j..n + 1 : A[i + 1][l]
        <4>1. i # m
          BY <2>5
        <4> QED BY <1>7, <1>14, <1>21, <4>1, Zenon DEF StandsAt
      <3> DEFINE X == T[x + 1][y] \/ \E k \in y..N : path[k] = "/" /\ T[x + 1][k + 1]
                 Y == \E l \in j..n + 1 : A[i + 1][l]
      <3>5. (T[x][y] <=> X) /\ (X <=> Y) /\ (A[i][j] <=> Y)
        BY <3>2, <3>3, <3>4
      <3> HIDE DEF X, Y
      <3> QED BY <3>5
    <2> QED BY <1>1, <2>4, <2>5
  <1> QED BY <1>2, <1>18, <1>19, <1>20, <1>21 DEF PatternComponent

(* From the last component to the first. *)
LEMMA AllAgree ==
    ASSUME NEW Ch, NEW c, NEW q, NEW w, NEW path, NEW a, NEW b, NEW F, NEW e, NEW T, NEW A,
           Setting(Ch, c, q, w, path, a, b, F, e, T, A)
    PROVE  Agrees(c, q, a, b, F, e, T, A, 1)
  <1> DEFINE m == Len(c)
             Q(i) == Agrees(c, q, a, b, F, e, T, A, i)
             N == {k \in Nat : k < m => Q(m - k)}
  <1>1. m \in Nat /\ m >= 1
    BY DEF Setting
  <1>2. ASSUME NEW i \in 1..m, i < m => Q(i + 1) PROVE Q(i)
    BY <1>2, ComponentsAgree
  <1> HIDE DEF Q, m
  <1>3. 0 \in N
    <2>1. m \in 1..m /\ ~(m < m) /\ m - 0 = m
      BY <1>1
    <2>2. Q(m)
      BY <1>2, <2>1
    <2> QED BY <2>1, <2>2
  <1>4. ASSUME NEW k \in Nat, k \in N PROVE k + 1 \in N
    <2>1. ASSUME k + 1 < m PROVE Q(m - (k + 1))
      <3> DEFINE i == m - (k + 1)
      <3>1. i \in 1..m /\ i + 1 = m - k /\ k < m
        BY <1>1, <2>1
      <3>2. Q(i + 1)
        BY <1>4, <3>1
      <3> HIDE DEF i
      <3>3. Q(i)
        BY <1>2, <3>1, <3>2
      <3> QED BY <3>3 DEF i
    <2> QED BY <2>1
  <1>5. Nat \subseteq N
    <2> HIDE DEF N
    <2> QED BY <1>3, <1>4, NumbersAreReached
  <1>6. m - 1 \in Nat /\ m - 1 < m /\ m - (m - 1) = 1
    BY <1>1
  <1>7. m - 1 \in N
    <2> HIDE DEF N
    <2> QED BY <1>5, <1>6
  <1>8. Q(m - (m - 1))
    BY <1>6, <1>7
  <1> QED BY <1>6, <1>8 DEF Q

(* A pattern and a path, whose components are of whatever characters. *)
IsGlobInput(Ch, i) ==
    /\ Ch \cap Marks = {} /\ {"/", "a", "*"} \subseteq Ch
    /\ i.pattern \in Seq(PatternComponent) /\ i.pattern # <<>>
    /\ i.path \in Seq(Component(Ch)) /\ i.path # <<>>

(***************************************************************************)
(* A path pattern is one of components: the property of the runs, for      *)
(* patterns and paths of any number of components and for components of    *)
(* the path of any characters and any length.                              *)
(***************************************************************************)
THEOREM PathPatternsAreOfComponents ==
    ASSUME NEW Ch, input.of = "path" => IsGlobInput(Ch, input)
    PROVE  PatternsAreOfComponents
  <1> SUFFICES ASSUME input.of = "path"
               PROVE  P!matches_path(Written(input.pattern), Written(input.path))
                        <=> Among(input.pattern, input.path)
    BY DEF PatternsAreOfComponents
  <1> DEFINE c == input.pattern
             q == input.path
             w == Written(c)
             path == Written(q)
  <1>1. /\ Ch \cap Marks = {} /\ {"/", "a", "*"} \subseteq Ch
        /\ c \in Seq(PatternComponent) /\ c # <<>> /\ q \in Seq(Component(Ch)) /\ q # <<>>
    BY DEF IsGlobInput
  <1> HIDE DEF c, q
  <1>2. PatternComponent \subseteq Component(Ch)
    <2>1. <<"a">> \in Component(Ch) /\ <<"*">> \in Component(Ch)
      BY <1>1 DEF Component
    <2>2. <<"a", "*">> \in Component(Ch)
      BY <1>1 DEF Component
    <2>3. <<"*", "*">> \in Component(Ch)
      BY <1>1 DEF Component
    <2> QED BY <2>1, <2>2, <2>3 DEF PatternComponent
  <1>3. c \in Seq(Component(Ch))
    BY <1>1, <1>2
  <1>4. w \in Seq(Ch) /\ path \in Seq(Ch) /\ (\E a : IsLaid(c, w, a)) /\ \E b : IsLaid(q, path, b)
    BY <1>1, <1>3, WrittenIsLaid
  <1> HIDE DEF w, path
  <1>5. PICK a : IsLaid(c, w, a)
    BY <1>4
  <1>6. PICK b : IsLaid(q, path, b)
    BY <1>4
  <1>7. PICK F, e, T : Reads(Ch, w, path, F, e, T) /\ P!matches_path(w, path) = T[1][1]
    BY <1>1, <1>4, PatternsAreRead
  <1>8. PICK A : Stands(A, c, q) /\ Among(c, q) = A[1][1]
    BY <1>1, ComponentsStand
  <1>9. Setting(Ch, c, q, w, path, a, b, F, e, T, A)
    BY <1>1, <1>3, <1>5, <1>6, <1>7, <1>8 DEF Setting
  <1>10. Agrees(c, q, a, b, F, e, T, A, 1)
    BY <1>9, AllAgree
  <1>11. IsRest(e, 1, F[1])
    <2>1. Len(w) \in Nat /\ 1 \in 1..Len(w) + 1
      BY <1>4
    <2>2. e = F[1] /\ e \in Seq(Ch \cup Marks)
      BY <1>7, <2>1 DEF Reads
    <2>3. Len(e) \in Nat
      BY <2>2
    <2> QED BY <2>2, <2>3 DEF IsRest
  <1>12. a[1] = 1 /\ b[1] = 1 /\ 1 \in 1..Len(q)
    BY <1>1, <1>5, <1>6 DEF IsLaid
  <1>13. T[1][1] <=> A[1][1]
    <2>1. \A x : IsRest(e, x, F[1]) => \A j \in 1..Len(q) : T[x][b[j]] <=> A[1][j]
      BY <1>10, <1>12 DEF Agrees
    <2>2. \A j \in 1..Len(q) : T[1][b[j]] <=> A[1][j]
      BY <1>11, <2>1
    <2> QED BY <1>12, <2>2
  <1>14. P!matches_path(w, path) <=> Among(c, q)
    BY <1>7, <1>8, <1>13
  <1> QED BY <1>14 DEF w, path, c, q
=============================================================================
