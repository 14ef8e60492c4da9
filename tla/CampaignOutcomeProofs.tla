----------------------- MODULE CampaignOutcomeProofs -----------------------
(***************************************************************************)
(* How a campaign ends, for every campaign and every failure: what it      *)
(* leaves of its worktrees, of its verdict and of its failure, that its    *)
(* run states follow one another legally, and that each step of it is one  *)
(* of Acceptance.                                                          *)
(***************************************************************************)
EXTENDS CampaignProofs, WellFoundedInduction, SequenceTheorems

-----------------------------------------------------------------------------
(* Induction, from the least element of a set of numbers. *)

(* A set that holds zero and with a number the next one holds all of them. *)
LEMMA NumbersAreReached ==
    ASSUME NEW S, 0 \in S, \A n \in Nat : n \in S => n + 1 \in S
    PROVE  Nat \subseteq S
  <1>1. ASSUME NEW x \in Nat \ S, \A y \in Nat \ S : ~(y < x)
        PROVE  FALSE
    <2>1. x # 0
      OBVIOUS
    <2>2. x - 1 \in Nat /\ x - 1 < x
      BY <2>1
    <2>3. x - 1 \in S
      BY <1>1, <2>2
    <2> QED BY <2>2, <2>3
  <1>2. PICK R : IsWellFoundedOn(R, Nat) /\ \A y, x \in Nat : <<y, x>> \in R <=> y < x
    BY NatLessThanWellFounded DEF OpToRel
  <1>3. ASSUME NEW T, T \subseteq Nat, T # {}
        PROVE  \E x \in T : \A y \in T : <<y, x>> \notin R
    <2>1. IsWellFoundedOn(R, Nat)
      BY <1>2
    <2>2. T \subseteq Nat /\ T # {}
      BY <1>3
    <2> QED BY <2>1, <2>2, WFMin
  <1>4. SUFFICES ASSUME Nat \ S # {} PROVE FALSE
    OBVIOUS
  <1>5. \E x \in Nat \ S : \A y \in Nat \ S : <<y, x>> \notin R
    BY <1>3, <1>4, Zenon
  <1> QED BY <1>1, <1>2, <1>5

-----------------------------------------------------------------------------
(* FlattenSeq.  It is defined by a recursive function: that there is one   *)
(* has to be shown before its equation can be used.                        *)
Concatenates(f, s, n) ==
    f = [i \in 1..n |-> IF i = 1 THEN s[i] ELSE f[i - 1] \o s[i]]

(* Its equation at each index. *)
LEMMA NextConcatenation ==
    ASSUME NEW s, NEW f, NEW m \in Nat, Concatenates(f, s, m), NEW n \in Nat, n + 1 \in 1..m
    PROVE  /\ n = 0 => f[n + 1] = s[n + 1]
           /\ n # 0 => f[n + 1] = f[n] \o s[n + 1]
  <1>1. \A i \in 1..m : f[i] = IF i = 1 THEN s[i] ELSE f[i - 1] \o s[i]
    BY DEF Concatenates
  <1>2. f[n + 1] = IF n + 1 = 1 THEN s[n + 1] ELSE f[(n + 1) - 1] \o s[n + 1]
    BY <1>1
  <1>3. (n + 1) - 1 = n /\ (n + 1 = 1 <=> n = 0)
    OBVIOUS
  <1> QED BY <1>2, <1>3

(* The concatenations of sequences are sequences. *)
LEMMA ConcatenationsAreSequences ==
    ASSUME NEW S, NEW m \in Nat, NEW s \in [1..m -> Seq(S)], NEW f, Concatenates(f, s, m)
    PROVE  \A n \in 1..m : f[n] \in Seq(S)
  <1> DEFINE M == {n \in Nat : n \in 1..m => f[n] \in Seq(S)}
  <1>1. 0 \in M
    OBVIOUS
  <1>2. ASSUME NEW n \in Nat, n \in M PROVE n + 1 \in M
    <2>1. SUFFICES ASSUME n + 1 \in 1..m PROVE f[n + 1] \in Seq(S)
      OBVIOUS
    <2>2. s[n + 1] \in Seq(S)
      BY <2>1
    <2>3. (n = 0 => f[n + 1] = s[n + 1]) /\ (n # 0 => f[n + 1] = f[n] \o s[n + 1])
      BY <2>1, NextConcatenation
    <2>4. n # 0 => f[n] \in Seq(S)
      BY <1>2, <2>1
    <2>5. n # 0 => f[n] \o s[n + 1] \in Seq(S)
      BY <2>2, <2>4
    <2> QED BY <2>2, <2>3, <2>5
  <1>3. Nat \subseteq M
    <2> HIDE DEF M
    <2> QED BY <1>1, <1>2, NumbersAreReached
  <1> QED BY <1>3

(* Lists that agree so far have the same concatenations so far. *)
LEMMA ConcatenationsAgree ==
    ASSUME NEW m \in Nat, NEW k \in Nat, m <= k, NEW s, NEW t, NEW f, NEW g,
           Concatenates(f, s, m), Concatenates(g, t, k), \A i \in 1..m : s[i] = t[i]
    PROVE  \A n \in 1..m : f[n] = g[n]
  <1> DEFINE M == {n \in Nat : n \in 1..m => f[n] = g[n]}
  <1>1. 0 \in M
    OBVIOUS
  <1>2. ASSUME NEW n \in Nat, n \in M PROVE n + 1 \in M
    <2>1. SUFFICES ASSUME n + 1 \in 1..m PROVE f[n + 1] = g[n + 1]
      OBVIOUS
    <2>2. n + 1 \in 1..k /\ s[n + 1] = t[n + 1] /\ (n = 0 \/ n \in 1..m)
      BY <2>1
    <2>3. (n = 0 => f[n + 1] = s[n + 1]) /\ (n # 0 => f[n + 1] = f[n] \o s[n + 1])
      BY <2>1, NextConcatenation
    <2>4. (n = 0 => g[n + 1] = t[n + 1]) /\ (n # 0 => g[n + 1] = g[n] \o t[n + 1])
      BY <2>2, NextConcatenation
    <2> QED BY <1>2, <2>2, <2>3, <2>4
  <1>3. Nat \subseteq M
    <2> HIDE DEF M
    <2> QED BY <1>1, <1>2, NumbersAreReached
  <1> QED BY <1>3

(* Every list of sequences has them. *)
LEMMA ConcatenationsExist ==
    ASSUME NEW s, NEW m \in Nat
    PROVE  \E f : Concatenates(f, s, m)
  <1> DEFINE M == {n \in Nat : \E f : Concatenates(f, s, n)}
  <1>1. 0 \in M
    <2>1. Concatenates(<<>>, s, 0)
      BY DEF Concatenates
    <2> QED BY <2>1
  <1>2. ASSUME NEW n \in Nat, n \in M PROVE n + 1 \in M
    <2>1. PICK f : Concatenates(f, s, n)
      BY <1>2
    <2> DEFINE g == [i \in 1..(n + 1) |-> IF i # n + 1 THEN f[i]
                                          ELSE IF n = 0 THEN s[n + 1] ELSE f[n] \o s[n + 1]]
    <2>2. ASSUME NEW i \in 1..(n + 1)
          PROVE  g[i] = IF i = 1 THEN s[i] ELSE g[i - 1] \o s[i]
      <3>1. i # 1 => i - 1 \in 1..n /\ i - 1 # n + 1 /\ g[i - 1] = f[i - 1]
        OBVIOUS
      <3>2. CASE i = n + 1
        BY <3>1, <3>2
      <3>3. CASE i # n + 1
        <4>1. i \in 1..n /\ g[i] = f[i]
          BY <3>3
        <4>2. f[i] = IF i = 1 THEN s[i] ELSE f[i - 1] \o s[i]
          BY <2>1, <4>1 DEF Concatenates
        <4> QED BY <3>1, <4>1, <4>2
      <3> QED BY <3>2, <3>3
    <2>3. g = [i \in 1..(n + 1) |-> g[i]]
      OBVIOUS
    <2> HIDE DEF g
    <2>4. Concatenates(g, s, n + 1)
      BY <2>2, <2>3 DEF Concatenates
    <2> QED BY <2>4
  <1>3. Nat \subseteq M
    <2> HIDE DEF M
    <2> QED BY <1>1, <1>2, NumbersAreReached
  <1> QED BY <1>3

(* FlattenSeq is the last of the concatenations. *)
LEMMA FlatteningConcatenates ==
    ASSUME NEW s, Len(s) \in Nat \ {0}
    PROVE  \E f : Concatenates(f, s, Len(s)) /\ FlattenSeq(s) = f[Len(s)]
  <1> DEFINE f == CHOOSE g : Concatenates(g, s, Len(s))
  <1>1. Concatenates(f, s, Len(s))
    BY ConcatenationsExist
  <1>2. FlattenSeq(s) = f[Len(s)]
    BY DEF FlattenSeq, Concatenates
  <1> QED BY <1>1, <1>2

(* Flattening yields a sequence, and nothing for nothing. *)
LEMMA FlatteningIsASequence ==
    ASSUME NEW S, NEW s \in Seq(Seq(S))
    PROVE  FlattenSeq(s) \in Seq(S) /\ (Len(s) = 0 => FlattenSeq(s) = <<>>)
  <1>1. Len(s) \in Nat /\ s \in [1..Len(s) -> Seq(S)]
    OBVIOUS
  <1>2. CASE Len(s) = 0
    BY <1>1, <1>2 DEF FlattenSeq
  <1>3. CASE Len(s) # 0
    <2>1. PICK f : Concatenates(f, s, Len(s)) /\ FlattenSeq(s) = f[Len(s)]
      BY <1>1, <1>3, FlatteningConcatenates
    <2>2. \A n \in 1..Len(s) : f[n] \in Seq(S)
      BY <1>1, <2>1, ConcatenationsAreSequences
    <2> QED BY <1>1, <1>3, <2>1, <2>2
  <1> QED BY <1>2, <1>3

(* A list with one more sequence flattens to the rest and that sequence.   *)
LEMMA FlatteningOneMore ==
    ASSUME NEW S, NEW n \in Nat, NEW s \in Seq(Seq(S)), NEW t \in Seq(Seq(S)),
           Len(s) = n, Len(t) = n + 1, \A i \in 1..n : s[i] = t[i]
    PROVE  FlattenSeq(t) = FlattenSeq(s) \o t[n + 1]
  <1>1. PICK g : Concatenates(g, t, Len(t)) /\ FlattenSeq(t) = g[Len(t)]
    BY FlatteningConcatenates
  <1>2. (n = 0 => g[n + 1] = t[n + 1]) /\ (n # 0 => g[n + 1] = g[n] \o t[n + 1])
    <2>1. Len(t) \in Nat /\ n + 1 \in 1..Len(t)
      OBVIOUS
    <2> QED BY <1>1, <2>1, NextConcatenation, ZenonT(60)
  <1>3. t[n + 1] \in Seq(S)
    OBVIOUS
  <1>4. CASE n = 0
    <2>1. FlattenSeq(s) = <<>>
      BY <1>4, FlatteningIsASequence
    <2> QED BY <1>1, <1>2, <1>3, <1>4, <2>1
  <1>5. CASE n # 0
    <2>1. PICK f : Concatenates(f, s, n) /\ FlattenSeq(s) = f[n]
      BY <1>5, FlatteningConcatenates
    <2>2. f[n] = g[n]
      BY <1>1, <1>5, <2>1, ConcatenationsAgree
    <2> QED BY <1>1, <1>2, <1>5, <2>1, <2>2
  <1> QED BY <1>4, <1>5

-----------------------------------------------------------------------------
(* The items of a root are items. *)
Kinds == {"build", "regression", "oracle", "scanner", "patch", "preapply"}
Ids == {"build"} \cup STRING
ItemSet == [kind : Kinds, id : Ids]

(* Where the elements of two lists are once the one follows the other.     *)
LEMMA OneAfterTheOther ==
    ASSUME NEW T, NEW s \in Seq(T), NEW t \in Seq(T)
    PROVE  /\ s \o t \in Seq(T) /\ Len(s \o t) = Len(s) + Len(t)
           /\ \A i \in 1..Len(s) : (s \o t)[i] = s[i]
           /\ \A i \in 1..Len(t) : (s \o t)[Len(s) + i] = t[i]
  OBVIOUS

(* The lists of a campaign are lists of IDs. *)
LEMMA IdsAreIds ==
    /\ <<"build">> \in Seq(Ids) /\ SharedRegs \in Seq(Ids) /\ Scans \in Seq(Ids)
    /\ \A u \in Units : Patches[u] \in Seq(Ids) /\ Vulns[u] \in Seq(Ids) /\ UnitRegs[u] \in Seq(Ids)
  <1>1. Seq(STRING) \subseteq Seq(Ids)
    BY SeqMonotonic DEF Ids
  <1>2. <<"build">> \in Seq(Ids)
    BY DEF Ids
  <1>3. SharedRegs \in Seq(STRING) /\ Scans \in Seq(STRING)
    BY CampaignIsValid
  <1>4. \A f \in [Units -> Seq(STRING)] : \A u \in Units : f[u] \in Seq(STRING)
    OBVIOUS
  <1>5. \A u \in Units :
            Patches[u] \in Seq(STRING) /\ Vulns[u] \in Seq(STRING) /\ UnitRegs[u] \in Seq(STRING)
    BY <1>4, CampaignIsValid
  <1> QED BY <1>1, <1>2, <1>3, <1>5

(* The units in composition order, and those of the first stages, are units. *)
LEMMA UnitsAreUnits ==
    /\ Order \in Seq(Units) /\ ConfigUnits \in Seq(Units) /\ Len(Order) \in Nat \ {0}
    /\ \A n \in 0..Len(Order) :
          /\ Applied(n) \in Seq(Units) /\ Len(Applied(n)) = n
          /\ \A i \in 1..n : Applied(n)[i] = Order[i]
    /\ \A n \in Stages : Order[n] \in Units
    /\ Applied(Len(Order)) = Order
  <1>1. Order \in Seq(Units) /\ Len(Order) \in Nat \ {0} /\ ConfigUnits \in Seq(STRING)
    BY CampaignIsValid
  <1>2. ConfigUnits \in Seq(Units)
    BY <1>1 DEF Units, ToSet
  <1>3. \A n \in 0..Len(Order) :
          /\ Applied(n) \in Seq(Units) /\ Len(Applied(n)) = n
          /\ \A i \in 1..n : Applied(n)[i] = Order[i]
    BY <1>1 DEF Applied
  <1>4. Applied(Len(Order)) = Order
    BY <1>1 DEF Applied
  <1>5. \A n \in Stages : Order[n] \in Units
    BY <1>1 DEF Stages
  <1> QED BY <1>1, <1>2, <1>3, <1>4, <1>5

(* What is collected over units is a list of IDs. *)
LEMMA OverUnitsAreIds ==
    ASSUME NEW ids, \A u \in Units : ids[u] \in Seq(Ids), NEW us \in Seq(Units)
    PROVE  OverUnits(ids, us) \in Seq(Ids)
  <1>1. [j \in 1..Len(us) |-> ids[us[j]]] \in Seq(Seq(Ids))
    OBVIOUS
  <1> QED BY <1>1, FlatteningIsASequence DEF OverUnits

(* The items made of a list. *)
LEMMA ItemsAreItems ==
    ASSUME NEW kind \in Kinds, NEW ids \in Seq(Ids)
    PROVE  /\ Items(kind, ids) \in Seq(ItemSet) /\ Len(Items(kind, ids)) = Len(ids)
           /\ \A j \in 1..Len(ids) : Items(kind, ids)[j] = [kind |-> kind, id |-> ids[j]]
  <1>1. \A j \in 1..Len(ids) : [kind |-> kind, id |-> ids[j]] \in ItemSet
    BY DEF ItemSet
  <1> HIDE DEF ItemSet
  <1> QED BY <1>1 DEF Items

(* A list of items of some kinds. *)
Are(kinds, s) == s \in Seq(ItemSet) /\ \A j \in 1..Len(s) : s[j].kind \in kinds

(* Two such lists, one after the other. *)
LEMMA KindsAddUp ==
    ASSUME NEW K, NEW L, NEW s, NEW t, Are(K, s), Are(L, t)
    PROVE  Are(K \cup L, s \o t)
  <1> DEFINE both == s \o t
  <1>1. /\ s \in Seq(ItemSet) /\ t \in Seq(ItemSet)
        /\ \A j \in 1..Len(s) : s[j].kind \in K
        /\ \A j \in 1..Len(t) : t[j].kind \in L
    BY DEF Are
  <1>2. /\ both \in Seq(ItemSet)
        /\ Len(both) = Len(s) + Len(t) /\ Len(s) \in Nat /\ Len(t) \in Nat
        /\ \A i \in 1..Len(s) : both[i] = s[i]
        /\ \A i \in 1..Len(t) : both[Len(s) + i] = t[i]
    BY <1>1, OneAfterTheOther
  <1> HIDE DEF both
  <1>3. ASSUME NEW j \in 1..Len(both) PROVE both[j].kind \in K \cup L
    <2>1. CASE j <= Len(s)
      BY <1>1, <1>2, <2>1
    <2>2. CASE j > Len(s)
      <3>1. j - Len(s) \in 1..Len(t) /\ Len(s) + (j - Len(s)) = j
        BY <1>2, <2>2
      <3>2. both[j] = t[j - Len(s)]
        BY <1>2, <3>1
      <3> QED BY <1>1, <3>1, <3>2
    <2> QED BY <1>2, <2>1, <2>2
  <1> QED BY <1>2, <1>3 DEF Are, both

(* A list made into items has the one kind. *)
LEMMA ItemsAreOfAKind ==
    ASSUME NEW k \in Kinds, NEW ids \in Seq(Ids)
    PROVE  Are({k}, Items(k, ids))
  <1> DEFINE made == Items(k, ids)
  <1>1. /\ made \in Seq(ItemSet) /\ Len(made) = Len(ids)
        /\ \A j \in 1..Len(ids) : made[j] = [kind |-> k, id |-> ids[j]]
    BY ItemsAreItems
  <1> HIDE DEF made
  <1>2. ASSUME NEW j \in 1..Len(made) PROVE made[j].kind = k
    <2>1. made[j] = [kind |-> k, id |-> ids[j]]
      BY <1>1
    <2> QED BY <2>1
  <1> QED BY <1>1, <1>2 DEF Are, made

(* Every list that a root's items are made of. *)
LEMMA PartsAreItems ==
    /\ Are({"build"}, Build) /\ Len(Build) = 1
    /\ Are({"scanner"}, Items("scanner", Scans)) /\ Are({"regression"}, Items("regression", SharedRegs))
    /\ \A us \in Seq(Units) :
          /\ Are({"oracle"}, Items("oracle", OverUnits(Vulns, us)))
          /\ Are({"regression"}, Items("regression", select_accumulated_regressions(us)))
    /\ \A u \in Units :
          /\ Are({"patch"}, Items("patch", Patches[u]))
          /\ Are({"preapply"}, Items("preapply", Vulns[u]))
          /\ Are({"oracle"}, Items("oracle", Vulns[u]))
          /\ Are({"regression"}, Items("regression", select_unit_regressions(u)))
  <1>1. {"build", "regression", "oracle", "scanner", "patch", "preapply"} = Kinds
    BY DEF Kinds
  <1>2. \A us \in Seq(Units) :
          /\ OverUnits(Vulns, us) \in Seq(Ids)
          /\ select_accumulated_regressions(us) \in Seq(Ids)
    <2>1. \A us \in Seq(Units) :
            OverUnits(Vulns, us) \in Seq(Ids) /\ OverUnits(UnitRegs, us) \in Seq(Ids)
      BY IdsAreIds, OverUnitsAreIds
    <2> QED BY <2>1, IdsAreIds, OneAfterTheOther DEF select_accumulated_regressions
  <1>3. \A u \in Units : select_unit_regressions(u) \in Seq(Ids)
    BY IdsAreIds, OneAfterTheOther DEF select_unit_regressions
  <1>4. Are({"build"}, Build) /\ Len(Build) = 1
    <2>1. Len(Build) = Len(<<"build">>)
      BY <1>1, IdsAreIds, ItemsAreItems DEF Build
    <2> QED BY <1>1, <2>1, IdsAreIds, ItemsAreOfAKind DEF Build
  <1> QED BY <1>1, <1>2, <1>3, <1>4, IdsAreIds, ItemsAreOfAKind

(* Only the baseline and the final verification apply no patch, and only a *)
(* stage of Phase C runs oracles before it applies any.                    *)
LEMMA KindsOfRoots ==
    ASSUME NEW r \in Roots
    PROVE  /\ r.phase \in {"a", "b", "c", "final"}
           /\ r.phase \in {"a", "final"} =>
                Are({"build", "regression", "oracle", "scanner"}, ItemsOf[r])
           /\ r.phase = "b" => Are({"patch", "build", "regression", "oracle", "scanner"}, ItemsOf[r])
           /\ r.phase = "c" => Are(Kinds, ItemsOf[r])
  <1>1. /\ r.phase \in {"a", "b", "c", "final"}
        /\ r.phase \in {"b", "c"} => r.n \in Stages /\ Order[r.n] \in Units
    <2>1. r.phase \in {"a", "b", "c", "final"} /\ (r.phase \in {"b", "c"} => r.n \in Stages)
      BY DEF Roots, PhaseA, Final, At
    <2> QED BY <2>1, UnitsAreUnits
  <1>2. CASE r.phase = "a"
    <2> DEFINE c == Items("oracle", OverUnits(Vulns, ConfigUnits))
               ab == Build \o Items("regression", SharedRegs)
    <2>1. ItemsOf[r] = BaselineItems
      BY <1>2 DEF ItemsOf
    <2>2. Are({"oracle"}, c)
      BY PartsAreItems, UnitsAreUnits
    <2>3. Are({"build"} \cup {"regression"}, ab)
      BY PartsAreItems, KindsAddUp
    <2>4. Are(({"build"} \cup {"regression"}) \cup {"oracle"}, ab \o c)
      BY <2>2, <2>3, KindsAddUp
    <2>5. Are((({"build"} \cup {"regression"}) \cup {"oracle"}) \cup {"scanner"},
              (ab \o c) \o Items("scanner", Scans))
      BY <2>4, PartsAreItems, KindsAddUp
    <2> QED BY <1>2, <2>1, <2>5 DEF BaselineItems, Are
  <1>3. CASE r.phase = "b"
    <2> DEFINE u == Order[r.n]
               a == Items("patch", Patches[u])
               c == Items("oracle", Vulns[u])
               d == Items("regression", select_unit_regressions(u))
    <2>1. ItemsOf[r] = IsolatedItems(u)
      BY <1>3 DEF ItemsOf
    <2>2. Are({"patch"}, a) /\ Are({"oracle"}, c) /\ Are({"regression"}, d)
      BY <1>1, <1>3, PartsAreItems
    <2> HIDE DEF a, c, d
    <2>3. Are({"patch"} \cup {"build"}, a \o Build)
      BY <2>2, PartsAreItems, KindsAddUp
    <2>4. Are(({"patch"} \cup {"build"}) \cup {"oracle"}, (a \o Build) \o c)
      BY <2>2, <2>3, KindsAddUp
    <2>5. Are((({"patch"} \cup {"build"}) \cup {"oracle"}) \cup {"regression"}, ((a \o Build) \o c) \o d)
      BY <2>2, <2>4, KindsAddUp
    <2>6. Are(((({"patch"} \cup {"build"}) \cup {"oracle"}) \cup {"regression"}) \cup {"scanner"},
              (((a \o Build) \o c) \o d) \o Items("scanner", Scans))
      BY <2>5, PartsAreItems, KindsAddUp
    <2> QED BY <1>3, <2>1, <2>6 DEF IsolatedItems, Are, a, c, d
  <1>4. CASE r.phase = "c"
    <2> DEFINE u == Order[r.n]
               a == Items("preapply", Vulns[u])
               b == Items("patch", Patches[u])
               d == Items("oracle", OverUnits(Vulns, Applied(r.n)))
               e == Items("regression", select_accumulated_regressions(Applied(r.n)))
    <2>1. ItemsOf[r] = StageItems(r.n)
      BY <1>4 DEF ItemsOf
    <2>2. r.n \in 0..Len(Order)
      BY <1>1, <1>4 DEF Stages
    <2>3. Applied(r.n) \in Seq(Units)
      BY <2>2, UnitsAreUnits
    <2>4. Are({"preapply"}, a) /\ Are({"patch"}, b) /\ Are({"oracle"}, d) /\ Are({"regression"}, e)
      BY <1>1, <1>4, <2>3, PartsAreItems
    <2>5. \A kind \in Kinds : \A s : Are({kind}, s) => Are(Kinds, s)
      BY DEF Are
    <2>6. {"build", "scanner", "preapply", "patch", "oracle", "regression"} \subseteq Kinds
      BY DEF Kinds
    <2>7. Are(Kinds, a) /\ Are(Kinds, b) /\ Are(Kinds, Build) /\ Are(Kinds, d) /\ Are(Kinds, e)
          /\ Are(Kinds, Items("scanner", Scans))
      BY <2>4, <2>5, <2>6, PartsAreItems
    <2>8. ASSUME NEW s, NEW t, Are(Kinds, s), Are(Kinds, t) PROVE Are(Kinds, s \o t)
      <3>1. Are(Kinds \cup Kinds, s \o t)
        BY <2>8, KindsAddUp
      <3> QED BY <3>1
    <2> HIDE DEF a, b, d, e
    <2>9. Are(Kinds, (((((a \o b) \o Build) \o d) \o e) \o Items("scanner", Scans)))
      BY <2>7, <2>8
    <2> QED BY <1>4, <2>1, <2>9 DEF StageItems, a, b, d, e
  <1>5. CASE r.phase = "final"
    <2> DEFINE b == Items("oracle", OverUnits(Vulns, Order))
               c == Items("regression", select_accumulated_regressions(Order))
    <2>1. ItemsOf[r] = FinalItems
      BY <1>5 DEF ItemsOf
    <2>2. Are({"oracle"}, b) /\ Are({"regression"}, c)
      BY PartsAreItems, UnitsAreUnits
    <2> HIDE DEF b, c
    <2>3. Are({"build"} \cup {"oracle"}, Build \o b)
      BY <2>2, PartsAreItems, KindsAddUp
    <2>4. Are(({"build"} \cup {"oracle"}) \cup {"regression"}, (Build \o b) \o c)
      BY <2>2, <2>3, KindsAddUp
    <2>5. Are((({"build"} \cup {"oracle"}) \cup {"regression"}) \cup {"scanner"},
              ((Build \o b) \o c) \o Items("scanner", Scans))
      BY <2>4, PartsAreItems, KindsAddUp
    <2> QED BY <1>5, <2>1, <2>5 DEF FinalItems, Are, b, c
  <1> QED BY <1>1, <1>2, <1>3, <1>4, <1>5

-----------------------------------------------------------------------------
(* Where the patches are. *)

(* The first list stays where it is, whatever follows. *)
LEMMA FirstStays ==
    ASSUME NEW K, NEW L, NEW s, NEW t, Are(K, s), Are(L, t)
    PROVE  /\ Len(s) \in Nat /\ Len(t) \in Nat /\ Len(s \o t) = Len(s) + Len(t)
           /\ \A i \in 1..Len(s) : (s \o t)[i] = s[i]
           /\ \A i \in 1..Len(t) : (s \o t)[Len(s) + i] = t[i]
  BY OneAfterTheOther DEF Are

(* A list that begins with the items of another and has only commands      *)
(* after them.                                                             *)
Commanded == {"build", "oracle", "regression", "scanner"}

Begins(first, s) ==
    /\ Are(Kinds, s) /\ Len(first) \in Nat /\ Len(s) \in Nat /\ Len(first) <= Len(s)
    /\ \A i \in 1..Len(first) : s[i] = first[i]
    /\ \A i \in (Len(first) + 1)..Len(s) : s[i].kind \in Commanded

(* A list begins with itself. *)
LEMMA BeginsWithItself ==
    ASSUME NEW s, Are(Kinds, s)
    PROVE  Begins(s, s)
  BY DEF Are, Begins

(* More commands change nothing about how it begins. *)
LEMMA BeginsTheSame ==
    ASSUME NEW first, NEW s, NEW k \in Commanded, NEW t, Begins(first, s), Are({k}, t)
    PROVE  Begins(first, s \o t) /\ Len(s \o t) = Len(s) + Len(t) /\ Len(t) \in Nat
  <1> DEFINE both == s \o t
  <1>1. /\ Are(Kinds, s) /\ Len(first) \in Nat /\ Len(s) \in Nat /\ Len(first) <= Len(s)
        /\ \A i \in 1..Len(first) : s[i] = first[i]
        /\ \A i \in (Len(first) + 1)..Len(s) : s[i].kind \in Commanded
    BY DEF Begins
  <1>2. Are(Kinds, both)
    <2>1. Are(Kinds \cup {k}, both)
      BY <1>1, KindsAddUp
    <2>2. Kinds \cup {k} = Kinds
      BY DEF Commanded, Kinds
    <2> QED BY <2>1, <2>2
  <1>3. /\ Len(t) \in Nat /\ Len(both) = Len(s) + Len(t)
        /\ \A i \in 1..Len(s) : both[i] = s[i]
        /\ \A i \in 1..Len(t) : both[Len(s) + i] = t[i]
    BY <1>1, FirstStays
  <1> HIDE DEF both
  <1>4. ASSUME NEW i \in (Len(first) + 1)..Len(both) PROVE both[i].kind \in Commanded
    <2>1. CASE i <= Len(s)
      BY <1>1, <1>3, <2>1
    <2>2. CASE i > Len(s)
      <3>1. i - Len(s) \in 1..Len(t) /\ Len(s) + (i - Len(s)) = i
        BY <1>1, <1>3, <2>2
      <3>2. both[i] = t[i - Len(s)]
        BY <1>3, <3>1
      <3> QED BY <3>1, <3>2 DEF Are
    <2> QED BY <1>1, <1>3, <2>1, <2>2
  <1>5. Len(first) <= Len(both) /\ Len(both) \in Nat /\ \A i \in 1..Len(first) : both[i] = first[i]
    BY <1>1, <1>3
  <1> QED BY <1>1, <1>2, <1>3, <1>4, <1>5 DEF Begins, both

(* A unit of Phase B applies its patches, in order, and then runs commands. *)
LEMMA PatchesOfUnits ==
    ASSUME NEW n \in Stages
    PROVE  /\ Begins(Items("patch", Patches[Order[n]]), IsolatedItems(Order[n]))
           /\ Len(Items("patch", Patches[Order[n]])) = Len(Patches[Order[n]])
           /\ Len(Patches[Order[n]]) < Len(IsolatedItems(Order[n]))
           /\ \A i \in 1..Len(Patches[Order[n]]) :
                IsolatedItems(Order[n])[i] = [kind |-> "patch", id |-> Patches[Order[n]][i]]
  <1> DEFINE u == Order[n]
             a == Items("patch", Patches[u])
             b == Items("oracle", Vulns[u])
             c == Items("regression", select_unit_regressions(u))
             d == Items("scanner", Scans)
             items == (((a \o Build) \o b) \o c) \o d
  <1>1. u \in Units
    BY UnitsAreUnits
  <1>2. /\ Are({"patch"}, a) /\ Are({"build"}, Build) /\ Are({"oracle"}, b)
        /\ Are({"regression"}, c) /\ Are({"scanner"}, d) /\ Len(Build) = 1
    BY <1>1, PartsAreItems
  <1>3. /\ Len(a) = Len(Patches[u])
        /\ \A i \in 1..Len(Patches[u]) : a[i] = [kind |-> "patch", id |-> Patches[u][i]]
    BY <1>1, IdsAreIds, ItemsAreItems DEF Kinds
  <1>4. IsolatedItems(u) = items
    BY DEF IsolatedItems
  <1> HIDE DEF a, b, c, d
  <1>5. Begins(a, a)
    <2>1. Are(Kinds, a)
      BY <1>2 DEF Are, Kinds
    <2> QED BY <2>1, BeginsWithItself
  <1>6. "build" \in Commanded /\ "oracle" \in Commanded /\ "regression" \in Commanded
        /\ "scanner" \in Commanded
    BY DEF Commanded
  <1>7. Begins(a, a \o Build) /\ Len(a \o Build) = Len(a) + Len(Build)
    <2>1. Are({"build"}, Build)
      BY <1>2
    <2> QED BY <1>5, <1>6, <2>1, BeginsTheSame
  <1>8. /\ Begins(a, (a \o Build) \o b) /\ Len(b) \in Nat
        /\ Len((a \o Build) \o b) = Len(a \o Build) + Len(b)
    BY <1>2, <1>6, <1>7, BeginsTheSame
  <1>9. /\ Begins(a, ((a \o Build) \o b) \o c) /\ Len(c) \in Nat
        /\ Len(((a \o Build) \o b) \o c) = Len((a \o Build) \o b) + Len(c)
    BY <1>2, <1>6, <1>8, BeginsTheSame
  <1>10. /\ Begins(a, items) /\ Len(d) \in Nat
         /\ Len(items) = Len(((a \o Build) \o b) \o c) + Len(d)
    BY <1>2, <1>6, <1>9, BeginsTheSame
  <1>11. Len(a) \in Nat
    BY <1>5 DEF Begins
  <1>12. Len(a) < Len(items)
    BY <1>2, <1>7, <1>8, <1>9, <1>10, <1>11
  <1> HIDE DEF items
  <1>13. \A i \in 1..Len(a) : items[i] = a[i]
    BY <1>10 DEF Begins
  <1> QED BY <1>3, <1>4, <1>10, <1>12, <1>13 DEF a

(* A stage of Phase C reproduces the vulnerabilities of its unit, applies  *)
(* its patches, in order, and then runs commands.                          *)
LEMMA PatchesOfStages ==
    ASSUME NEW n \in Stages
    PROVE  LET u == Order[n]
               vulns == Len(Vulns[u])
               patches == Len(Patches[u])
           IN  /\ vulns \in Nat /\ patches \in Nat
               /\ Len(StageItems(n)) \in Nat /\ vulns + patches < Len(StageItems(n))
               /\ \A i \in 1..vulns :
                    StageItems(n)[i] = [kind |-> "preapply", id |-> Vulns[u][i]]
               /\ \A i \in 1..patches :
                    StageItems(n)[vulns + i] = [kind |-> "patch", id |-> Patches[u][i]]
               /\ \A i \in (vulns + patches + 1)..Len(StageItems(n)) :
                    StageItems(n)[i].kind \in Commanded
  <1> DEFINE u == Order[n]
             v == Items("preapply", Vulns[u])
             p == Items("patch", Patches[u])
             a == v \o p
             b == Items("oracle", OverUnits(Vulns, Applied(n)))
             c == Items("regression", select_accumulated_regressions(Applied(n)))
             d == Items("scanner", Scans)
             items == (((a \o Build) \o b) \o c) \o d
  <1>1. u \in Units /\ Applied(n) \in Seq(Units)
    <2>1. n \in 0..Len(Order)
      BY UnitsAreUnits DEF Stages
    <2> QED BY <2>1, UnitsAreUnits
  <1>2. /\ Are({"preapply"}, v) /\ Are({"patch"}, p) /\ Are({"build"}, Build) /\ Are({"oracle"}, b)
        /\ Are({"regression"}, c) /\ Are({"scanner"}, d) /\ Len(Build) = 1
    BY <1>1, PartsAreItems
  <1>3. /\ Len(v) = Len(Vulns[u]) /\ Len(p) = Len(Patches[u])
        /\ \A i \in 1..Len(Vulns[u]) : v[i] = [kind |-> "preapply", id |-> Vulns[u][i]]
        /\ \A i \in 1..Len(Patches[u]) : p[i] = [kind |-> "patch", id |-> Patches[u][i]]
    BY <1>1, IdsAreIds, ItemsAreItems DEF Kinds
  <1>4. StageItems(n) = items
    BY DEF StageItems
  <1> HIDE DEF v, p, b, c, d
  <1>5. /\ Len(v) \in Nat /\ Len(p) \in Nat /\ Len(a) = Len(v) + Len(p)
        /\ \A i \in 1..Len(v) : a[i] = v[i]
        /\ \A i \in 1..Len(p) : a[Len(v) + i] = p[i]
    BY <1>2, FirstStays
  <1>6. Begins(a, a)
    <2>1. Are({"preapply"} \cup {"patch"}, a)
      BY <1>2, KindsAddUp
    <2>2. Are(Kinds, a)
      BY <2>1 DEF Are, Kinds
    <2> QED BY <2>2, BeginsWithItself
  <1> HIDE DEF a
  <1>7. "build" \in Commanded /\ "oracle" \in Commanded /\ "regression" \in Commanded
        /\ "scanner" \in Commanded
    BY DEF Commanded
  <1>8. Begins(a, a \o Build) /\ Len(a \o Build) = Len(a) + Len(Build)
    <2>1. Are({"build"}, Build)
      BY <1>2
    <2> QED BY <1>6, <1>7, <2>1, BeginsTheSame
  <1>9. /\ Begins(a, (a \o Build) \o b) /\ Len(b) \in Nat
        /\ Len((a \o Build) \o b) = Len(a \o Build) + Len(b)
    BY <1>2, <1>7, <1>8, BeginsTheSame
  <1>10. /\ Begins(a, ((a \o Build) \o b) \o c) /\ Len(c) \in Nat
         /\ Len(((a \o Build) \o b) \o c) = Len((a \o Build) \o b) + Len(c)
    BY <1>2, <1>7, <1>9, BeginsTheSame
  <1>11. /\ Begins(a, items) /\ Len(d) \in Nat
         /\ Len(items) = Len(((a \o Build) \o b) \o c) + Len(d)
    BY <1>2, <1>7, <1>10, BeginsTheSame
  <1>12. Len(items) \in Nat /\ Len(v) + Len(p) < Len(items)
    BY <1>2, <1>5, <1>8, <1>9, <1>10, <1>11
  <1> HIDE DEF items
  <1>13. /\ \A i \in 1..Len(a) : items[i] = a[i]
         /\ \A i \in (Len(a) + 1)..Len(items) : items[i].kind \in Commanded
    BY <1>11 DEF Begins
  <1>14. /\ \A i \in 1..Len(v) : items[i] = v[i]
         /\ \A i \in 1..Len(p) : items[Len(v) + i] = p[i]
         /\ \A i \in (Len(v) + Len(p) + 1)..Len(items) : items[i].kind \in Commanded
    BY <1>5, <1>13
  <1> QED BY <1>3, <1>4, <1>5, <1>12, <1>14

-----------------------------------------------------------------------------
(* The records of what a root executes, item after item.                   *)
ItemFiles(r, n, item) ==
    IF item.kind = "patch" THEN {PatchFile(r, n, item)} ELSE CommandFiles(r, n, item)

FilesFrom(r, after, items) == UNION {ItemFiles(r, after + j, items[j]) : j \in 1..Len(items)}

RootFiles(r, count) == UNION {ItemFiles(r, j, ItemsOf[r][j]) : j \in 1..count}

(* Those of one list and of the list after it. *)
LEMMA FilesAddUp ==
    ASSUME NEW r, NEW after \in Nat, NEW s \in Seq(ItemSet), NEW t \in Seq(ItemSet)
    PROVE  FilesFrom(r, after, s \o t) = FilesFrom(r, after, s) \cup FilesFrom(r, after + Len(s), t)
  <1> DEFINE both == s \o t
             m == Len(s)
             k == Len(t)
  <1>1. /\ Len(both) = m + k /\ m \in Nat /\ k \in Nat
        /\ \A i \in 1..m : both[i] = s[i]
        /\ \A i \in 1..k : both[m + i] = t[i]
    BY OneAfterTheOther
  <1>2. \A f : f \in FilesFrom(r, after, s) <=> \E i \in 1..m : f \in ItemFiles(r, after + i, s[i])
    BY DEF FilesFrom
  <1>3. \A f : f \in FilesFrom(r, after + m, t)
                 <=> \E i \in 1..k : f \in ItemFiles(r, (after + m) + i, t[i])
    BY DEF FilesFrom
  <1>4. \A f : f \in FilesFrom(r, after, both)
                 <=> \E i \in 1..(m + k) : f \in ItemFiles(r, after + i, both[i])
    BY <1>1 DEF FilesFrom
  <1> HIDE DEF both, m, k
  <1>5. ASSUME NEW f, f \in FilesFrom(r, after, both)
        PROVE  f \in FilesFrom(r, after, s) \cup FilesFrom(r, after + m, t)
    <2>1. PICK i \in 1..(m + k) : f \in ItemFiles(r, after + i, both[i])
      BY <1>4, <1>5
    <2>2. CASE i \in 1..m
      BY <1>1, <1>2, <2>1, <2>2
    <2>3. CASE i \notin 1..m
      <3>1. i - m \in 1..k /\ m + (i - m) = i /\ (after + m) + (i - m) = after + i
        BY <1>1, <2>3
      <3>2. both[i] = t[i - m]
        BY <1>1, <3>1
      <3> QED BY <1>3, <2>1, <3>1, <3>2
    <2> QED BY <2>2, <2>3
  <1>6. ASSUME NEW f, f \in FilesFrom(r, after, s)
        PROVE  f \in FilesFrom(r, after, both)
    <2>1. PICK i \in 1..m : f \in ItemFiles(r, after + i, s[i])
      BY <1>2, <1>6
    <2>2. i \in 1..(m + k) /\ both[i] = s[i]
      BY <1>1
    <2> QED BY <1>4, <2>1, <2>2
  <1>7. ASSUME NEW f, f \in FilesFrom(r, after + m, t)
        PROVE  f \in FilesFrom(r, after, both)
    <2>1. PICK i \in 1..k : f \in ItemFiles(r, (after + m) + i, t[i])
      BY <1>3, <1>7
    <2>2. m + i \in 1..(m + k) /\ both[m + i] = t[i] /\ (after + m) + i = after + (m + i)
      BY <1>1
    <2> QED BY <1>4, <2>1, <2>2
  <1> QED BY <1>5, <1>6, <1>7 DEF both, m

(* A list of commands leaves what _verify_final_evidence expects of one. *)
LEMMA FilesOfCommands ==
    ASSUME NEW r, NEW after, NEW k \in Kinds \ {"patch"}, NEW ids \in Seq(Ids)
    PROVE  FilesFrom(r, after, Items(k, ids)) = Commands(r, after, k, ids)
  <1> DEFINE made == Items(k, ids)
  <1>1. Len(made) = Len(ids) /\ \A j \in 1..Len(ids) : made[j] = [kind |-> k, id |-> ids[j]]
    BY ItemsAreItems
  <1> HIDE DEF made
  <1>2. ASSUME NEW j \in 1..Len(ids)
        PROVE  ItemFiles(r, after + j, made[j])
                 = CommandFiles(r, after + j, [kind |-> k, id |-> ids[j]])
    <2>1. made[j] = [kind |-> k, id |-> ids[j]]
      BY <1>1
    <2>2. made[j].kind # "patch"
      BY <2>1
    <2> QED BY <2>1, <2>2 DEF ItemFiles
  <1>3. FilesFrom(r, after, made) = Commands(r, after, k, ids)
    BY <1>1, <1>2 DEF FilesFrom, Commands
  <1> QED BY <1>3 DEF made

(* And so do the patches of a unit. *)
LEMMA FilesOfPatches ==
    ASSUME NEW r, NEW after, NEW u \in Units
    PROVE  FilesFrom(r, after, Items("patch", Patches[u])) = PatchFiles(r, after, u)
  <1> DEFINE ids == Patches[u]
             made == Items("patch", ids)
  <1>0. ids \in Seq(Ids) /\ "patch" \in Kinds
    BY IdsAreIds DEF Kinds
  <1>1. Len(made) = Len(ids) /\ \A j \in 1..Len(ids) : made[j] = [kind |-> "patch", id |-> ids[j]]
    BY <1>0, ItemsAreItems
  <1> HIDE DEF made
  <1>2. ASSUME NEW j \in 1..Len(ids)
        PROVE  ItemFiles(r, after + j, made[j]) = {PatchFile(r, after + j, [id |-> ids[j]])}
    <2>1. made[j] = [kind |-> "patch", id |-> ids[j]]
      BY <1>1
    <2>2. made[j].kind = "patch" /\ made[j].id = ids[j]
      BY <2>1
    <2> QED BY <2>2 DEF ItemFiles, PatchFile
  <1>3. FilesFrom(r, after, made) = UNION {{PatchFile(r, after + j, [id |-> ids[j]])} : j \in 1..Len(ids)}
    BY <1>1, <1>2 DEF FilesFrom
  <1>4. PatchFiles(r, after, u) = {PatchFile(r, after + j, [id |-> ids[j]]) : j \in 1..Len(ids)}
    BY DEF PatchFiles
  <1> QED BY <1>3, <1>4 DEF made

(* A list of items whose records, from the first number on, are known. *)
Leaving(r, s, n, files) == s \in Seq(ItemSet) /\ Len(s) = n /\ n \in Nat /\ FilesFrom(r, 0, s) = files

(* It may begin with commands or with patches, *)
LEMMA LeavingFirst ==
    /\ \A r, k, ids : k \in Kinds \ {"patch"} /\ ids \in Seq(Ids) =>
            Leaving(r, Items(k, ids), Len(ids), Commands(r, 0, k, ids))
    /\ \A r, u : u \in Units =>
            Leaving(r, Items("patch", Patches[u]), Len(Patches[u]), PatchFiles(r, 0, u))
  <1>1. ASSUME NEW r, NEW k \in Kinds \ {"patch"}, NEW ids \in Seq(Ids)
        PROVE  Leaving(r, Items(k, ids), Len(ids), Commands(r, 0, k, ids))
    BY ItemsAreItems, FilesOfCommands DEF Leaving
  <1>2. ASSUME NEW r, NEW u \in Units
        PROVE  Leaving(r, Items("patch", Patches[u]), Len(Patches[u]), PatchFiles(r, 0, u))
    <2>1. Patches[u] \in Seq(Ids) /\ "patch" \in Kinds
      BY IdsAreIds DEF Kinds
    <2> QED BY <2>1, ItemsAreItems, FilesOfPatches DEF Leaving
  <1> QED BY <1>1, <1>2

(* and go on with commands *)
LEMMA LeavingMore ==
    ASSUME NEW r, NEW s, NEW n, NEW files, Leaving(r, s, n, files),
           NEW k \in Kinds \ {"patch"}, NEW ids \in Seq(Ids)
    PROVE  Leaving(r, s \o Items(k, ids), n + Len(ids), files \cup Commands(r, n, k, ids))
  <1> DEFINE t == Items(k, ids)
  <1>1. t \in Seq(ItemSet) /\ Len(t) = Len(ids) /\ Len(ids) \in Nat
    BY ItemsAreItems
  <1>2. FilesFrom(r, 0 + n, t) = Commands(r, n, k, ids)
    <2>1. 0 + n = n
      BY DEF Leaving
    <2> QED BY <2>1, FilesOfCommands
  <1> HIDE DEF t
  <1>3. s \o t \in Seq(ItemSet) /\ Len(s \o t) = n + Len(ids) /\ n + Len(ids) \in Nat
    <2>1. s \in Seq(ItemSet) /\ Len(s) = n /\ n \in Nat
      BY DEF Leaving
    <2>2. s \o t \in Seq(ItemSet) /\ Len(s \o t) = Len(s) + Len(t)
      BY <1>1, <2>1, OneAfterTheOther
    <2> QED BY <1>1, <2>1, <2>2
  <1>4. FilesFrom(r, 0, s \o t) = files \cup Commands(r, n, k, ids)
    BY <1>1, <1>2, FilesAddUp DEF Leaving
  <1> QED BY <1>3, <1>4 DEF Leaving, t

(* or with patches. *)
LEMMA LeavingPatches ==
    ASSUME NEW r, NEW s, NEW n, NEW files, Leaving(r, s, n, files), NEW u \in Units
    PROVE  Leaving(r, s \o Items("patch", Patches[u]), n + Len(Patches[u]),
                   files \cup PatchFiles(r, n, u))
  <1> DEFINE ids == Patches[u]
             t == Items("patch", ids)
  <1>1. t \in Seq(ItemSet) /\ Len(t) = Len(ids) /\ Len(ids) \in Nat
    <2>1. ids \in Seq(Ids) /\ "patch" \in Kinds
      BY IdsAreIds DEF Kinds
    <2> QED BY <2>1, ItemsAreItems
  <1>2. FilesFrom(r, 0 + n, t) = PatchFiles(r, n, u)
    <2>1. 0 + n = n
      BY DEF Leaving
    <2> QED BY <2>1, FilesOfPatches
  <1> HIDE DEF t, ids
  <1>3. s \o t \in Seq(ItemSet) /\ Len(s \o t) = n + Len(ids) /\ n + Len(ids) \in Nat
    <2>1. s \in Seq(ItemSet) /\ Len(s) = n /\ n \in Nat
      BY DEF Leaving
    <2>2. s \o t \in Seq(ItemSet) /\ Len(s \o t) = Len(s) + Len(t)
      BY <1>1, <2>1, OneAfterTheOther
    <2> QED BY <1>1, <2>1, <2>2
  <1>4. FilesFrom(r, 0, s \o t) = files \cup PatchFiles(r, n, u)
    BY <1>1, <1>2, FilesAddUp DEF Leaving
  <1> QED BY <1>3, <1>4 DEF Leaving, t, ids

(* The lists that commands are made of. *)
LEMMA ListsOfCommands ==
    /\ {"build", "regression", "oracle", "scanner", "preapply"} \subseteq Kinds \ {"patch"}
    /\ \A us \in Seq(Units) :
          /\ OverUnits(Vulns, us) \in Seq(Ids)
          /\ select_accumulated_regressions(us) \in Seq(Ids)
    /\ \A u \in Units : select_unit_regressions(u) \in Seq(Ids)
    /\ Len(<<"build">>) = 1 /\ Build = Items("build", <<"build">>)
  <1>1. ASSUME NEW us \in Seq(Units)
        PROVE  OverUnits(Vulns, us) \in Seq(Ids) /\ OverUnits(UnitRegs, us) \in Seq(Ids)
    BY IdsAreIds, OverUnitsAreIds
  <1>2. \A s \in Seq(Ids), t \in Seq(Ids) : s \o t \in Seq(Ids)
    OBVIOUS
  <1> QED
    BY <1>1, <1>2, IdsAreIds
       DEF Kinds, Build, select_accumulated_regressions, select_unit_regressions

(* The records of each root, once all its items have passed, are those     *)
(* that _verify_final_evidence wants of it.                                *)
LEMMA FilesOfBaseline == Leaving(PhaseA, BaselineItems, Len(BaselineItems), ExpectedA)
  <1> DEFINE vulns == OverUnits(Vulns, ConfigUnits)
             build == Items("build", <<"build">>)
             regs == Items("regression", SharedRegs)
             oracles == Items("oracle", vulns)
             scans == Items("scanner", Scans)
             m == Len(SharedRegs)
             k == Len(vulns)
             files == Commands(PhaseA, 0, "build", <<"build">>)
  <1>1. /\ SharedRegs \in Seq(Ids) /\ Scans \in Seq(Ids) /\ vulns \in Seq(Ids)
        /\ {"build", "regression", "oracle", "scanner"} \subseteq Kinds \ {"patch"}
    BY IdsAreIds, UnitsAreUnits, ListsOfCommands
  <1>2. Leaving(PhaseA, build, 1, files)
    BY <1>1, IdsAreIds, LeavingFirst, ListsOfCommands
  <1>3. Leaving(PhaseA, build \o regs, 1 + m, files \cup Commands(PhaseA, 1, "regression", SharedRegs))
    BY <1>1, <1>2, LeavingMore
  <1>4. Leaving(PhaseA, (build \o regs) \o oracles, (1 + m) + k,
                (files \cup Commands(PhaseA, 1, "regression", SharedRegs))
                   \cup Commands(PhaseA, 1 + m, "oracle", vulns))
    BY <1>1, <1>3, LeavingMore
  <1>5. Leaving(PhaseA, ((build \o regs) \o oracles) \o scans, ((1 + m) + k) + Len(Scans), ExpectedA)
    BY <1>1, <1>4, LeavingMore DEF ExpectedA
  <1>6. BaselineItems = ((build \o regs) \o oracles) \o scans
    BY DEF BaselineItems, Build
  <1> QED BY <1>5, <1>6 DEF Leaving

(* Those of a unit alone. *)
LEMMA FilesOfUnit ==
    ASSUME NEW n \in Stages
    PROVE  Leaving(At("b", n), IsolatedItems(Order[n]), Len(IsolatedItems(Order[n])), ExpectedB(n))
  <1> DEFINE u == Order[n]
             r == At("b", n)
             regs == select_unit_regressions(u)
             p == Len(Patches[u])
             v == Len(Vulns[u])
             patches == Items("patch", Patches[u])
             build == Items("build", <<"build">>)
             oracles == Items("oracle", Vulns[u])
             regressions == Items("regression", regs)
             scans == Items("scanner", Scans)
             first == PatchFiles(r, 0, u)
             built == first \cup Commands(r, p, "build", <<"build">>)
             asked == built \cup Commands(r, p + 1, "oracle", Vulns[u])
             tested == asked \cup Commands(r, (p + 1) + v, "regression", regs)
             scanned == tested \cup Commands(r, ((p + 1) + v) + Len(regs), "scanner", Scans)
  <1>1. /\ u \in Units /\ <<"build">> \in Seq(Ids) /\ regs \in Seq(Ids) /\ Scans \in Seq(Ids)
        /\ Vulns[u] \in Seq(Ids) /\ Patches[u] \in Seq(Ids) /\ Len(<<"build">>) = 1
        /\ {"build", "regression", "oracle", "scanner"} \subseteq Kinds \ {"patch"}
    BY IdsAreIds, UnitsAreUnits, ListsOfCommands
  <1>2. ExpectedB(n) = scanned
    <2>1. p \in Nat /\ (p + 1) - 1 = p
      BY <1>1
    <2> QED BY <2>1 DEF ExpectedB
  <1>3. IsolatedItems(u) = (((patches \o build) \o oracles) \o regressions) \o scans
    BY DEF IsolatedItems, Build
  <1> HIDE DEF u, r, regs
  <1>4. Leaving(r, patches, p, first)
    BY <1>1, LeavingFirst
  <1>5. Leaving(r, patches \o build, p + 1, built)
    <2>1. Leaving(r, patches \o build, p + Len(<<"build">>), built)
      BY <1>1, <1>4, LeavingMore
    <2> QED BY <1>1, <2>1
  <1>6. Leaving(r, (patches \o build) \o oracles, (p + 1) + v, asked)
    BY <1>1, <1>5, LeavingMore
  <1>7. Leaving(r, ((patches \o build) \o oracles) \o regressions, ((p + 1) + v) + Len(regs), tested)
    BY <1>1, <1>6, LeavingMore
  <1>8. Leaving(r, (((patches \o build) \o oracles) \o regressions) \o scans,
                (((p + 1) + v) + Len(regs)) + Len(Scans), scanned)
    BY <1>1, <1>7, LeavingMore
  <1>9. Leaving(r, IsolatedItems(u), Len(IsolatedItems(u)), ExpectedB(n))
    BY <1>2, <1>3, <1>8 DEF Leaving
  <1> QED BY <1>9 DEF u, r

(* Those of a stage. *)
LEMMA FilesOfStage ==
    ASSUME NEW n \in Stages
    PROVE  Leaving(At("c", n), StageItems(n), Len(StageItems(n)), ExpectedC(n))
  <1> DEFINE u == Order[n]
             r == At("c", n)
             vulns == OverUnits(Vulns, Applied(n))
             regs == select_accumulated_regressions(Applied(n))
             v == Len(Vulns[u])
             p == Len(Patches[u])
             preapplies == Items("preapply", Vulns[u])
             patches == Items("patch", Patches[u])
             build == Items("build", <<"build">>)
             oracles == Items("oracle", vulns)
             regressions == Items("regression", regs)
             scans == Items("scanner", Scans)
             first == Commands(r, 0, "preapply", Vulns[u])
             applied == first \cup PatchFiles(r, v, u)
             built == applied \cup Commands(r, v + p, "build", <<"build">>)
             asked == built \cup Commands(r, (v + p) + 1, "oracle", vulns)
             tested == asked \cup Commands(r, ((v + p) + 1) + Len(vulns), "regression", regs)
             scanned == tested \cup Commands(r, (((v + p) + 1) + Len(vulns)) + Len(regs), "scanner", Scans)
  <1>0. Applied(n) \in Seq(Units)
    <2>1. n \in 0..Len(Order)
      BY DEF Stages
    <2> QED BY <2>1, UnitsAreUnits
  <1>1. /\ u \in Units /\ <<"build">> \in Seq(Ids) /\ regs \in Seq(Ids) /\ Scans \in Seq(Ids)
        /\ vulns \in Seq(Ids)
        /\ Vulns[u] \in Seq(Ids) /\ Patches[u] \in Seq(Ids) /\ Len(<<"build">>) = 1
        /\ {"build", "regression", "oracle", "scanner", "preapply"} \subseteq Kinds \ {"patch"}
    BY <1>0, IdsAreIds, UnitsAreUnits, ListsOfCommands
  <1>2. ExpectedC(n) = scanned
    <2>1. p \in Nat /\ v \in Nat /\ ((v + p) + 1) - 1 = v + p
      BY <1>1
    <2> QED BY <2>1 DEF ExpectedC
  <1>3. StageItems(n) = ((((preapplies \o patches) \o build) \o oracles) \o regressions) \o scans
    BY DEF StageItems, Build
  <1> HIDE DEF u, r, regs, vulns
  <1>4. Leaving(r, preapplies, v, first)
    BY <1>1, LeavingFirst
  <1>5. Leaving(r, preapplies \o patches, v + p, applied)
    BY <1>1, <1>4, LeavingPatches
  <1>6. Leaving(r, (preapplies \o patches) \o build, (v + p) + 1, built)
    <2>1. Leaving(r, (preapplies \o patches) \o build, (v + p) + Len(<<"build">>), built)
      BY <1>1, <1>5, LeavingMore
    <2> QED BY <1>1, <2>1
  <1>7. Leaving(r, ((preapplies \o patches) \o build) \o oracles, ((v + p) + 1) + Len(vulns), asked)
    BY <1>1, <1>6, LeavingMore
  <1>8. Leaving(r, (((preapplies \o patches) \o build) \o oracles) \o regressions,
                (((v + p) + 1) + Len(vulns)) + Len(regs), tested)
    BY <1>1, <1>7, LeavingMore
  <1>9. Leaving(r, ((((preapplies \o patches) \o build) \o oracles) \o regressions) \o scans,
                ((((v + p) + 1) + Len(vulns)) + Len(regs)) + Len(Scans), scanned)
    BY <1>1, <1>8, LeavingMore
  <1>10. Leaving(r, StageItems(n), Len(StageItems(n)), ExpectedC(n))
    BY <1>2, <1>3, <1>9 DEF Leaving
  <1> QED BY <1>10 DEF r

(* Those of the final verification, the two integrity records apart: the   *)
(* second one has the number after the last scan.                          *)
FinalMarks ==
    {IntegrityOnly(0, "initial-integrity"), IntegrityOnly(Len(FinalItems) + 1, "final-integrity")}

(* Those of the final root are the records of what it executes. *)
LEMMA FilesOfFinal ==
    \E files : /\ Leaving(Final, FinalItems, Len(FinalItems), files)
               /\ ExpectedFinal = FinalMarks \cup files
  <1> DEFINE vulns == OverUnits(Vulns, Order)
             regs == select_accumulated_regressions(Order)
             build == Items("build", <<"build">>)
             oracles == Items("oracle", vulns)
             regressions == Items("regression", regs)
             scans == Items("scanner", Scans)
             first == Commands(Final, 0, "build", <<"build">>)
             asked == first \cup Commands(Final, 1, "oracle", vulns)
             tested == asked \cup Commands(Final, 1 + Len(vulns), "regression", regs)
             scanned == tested \cup Commands(Final, (1 + Len(vulns)) + Len(regs), "scanner", Scans)
             last == ((1 + Len(vulns)) + Len(regs)) + Len(Scans)
  <1>1. /\ <<"build">> \in Seq(Ids) /\ regs \in Seq(Ids) /\ Scans \in Seq(Ids)
        /\ vulns \in Seq(Ids) /\ Len(<<"build">>) = 1
        /\ {"build", "regression", "oracle", "scanner"} \subseteq Kinds \ {"patch"}
    BY IdsAreIds, UnitsAreUnits, ListsOfCommands
  <1>2. ExpectedFinal = {IntegrityOnly(0, "initial-integrity"), IntegrityOnly(last + 1, "final-integrity")}
                          \cup scanned
    BY DEF ExpectedFinal
  <1>3. FinalItems = ((build \o oracles) \o regressions) \o scans
    BY DEF FinalItems, Build
  <1> HIDE DEF regs, vulns
  <1>4. Leaving(Final, build, 1, first)
    <2>1. Leaving(Final, build, Len(<<"build">>), first)
      BY <1>1, LeavingFirst
    <2> QED BY <1>1, <2>1
  <1>5. Leaving(Final, build \o oracles, 1 + Len(vulns), asked)
    BY <1>1, <1>4, LeavingMore
  <1>6. Leaving(Final, (build \o oracles) \o regressions, (1 + Len(vulns)) + Len(regs), tested)
    BY <1>1, <1>5, LeavingMore
  <1>7. Leaving(Final, ((build \o oracles) \o regressions) \o scans, last, scanned)
    BY <1>1, <1>6, LeavingMore
  <1> HIDE DEF last, scanned, build, oracles, regressions, scans
  <1>8. Leaving(Final, FinalItems, Len(FinalItems), scanned) /\ Len(FinalItems) = last
    BY <1>3, <1>7 DEF Leaving
  <1> QED BY <1>2, <1>8 DEF FinalMarks

(* Whatever the campaign, what _verify_final_evidence expects is what all  *)
(* the items of all the roots leave: it counts as the execution does.      *)
THEOREM RecordsExpected ==
    ExpectedFiles = (UNION {RootFiles(r, Len(ItemsOf[r])) : r \in Roots}) \cup FinalMarks
  <1>1. ASSUME NEW r \in Roots, NEW n, NEW files, Leaving(r, ItemsOf[r], n, files)
        PROVE  RootFiles(r, Len(ItemsOf[r])) = files
    <2>1. FilesFrom(r, 0, ItemsOf[r]) = files /\ Len(ItemsOf[r]) \in Nat
      BY <1>1 DEF Leaving
    <2>2. \A j \in 1..Len(ItemsOf[r]) : 0 + j = j
      BY <2>1
    <2> QED BY <2>1, <2>2 DEF FilesFrom, RootFiles
  <1>2. /\ PhaseA \in Roots /\ ItemsOf[PhaseA] = BaselineItems
        /\ Final \in Roots /\ ItemsOf[Final] = FinalItems
    BY DEF Roots, PhaseA, Final, At, ItemsOf
  <1>3. ASSUME NEW n \in Stages
        PROVE  /\ At("b", n) \in Roots /\ ItemsOf[At("b", n)] = IsolatedItems(Order[n])
               /\ At("c", n) \in Roots /\ ItemsOf[At("c", n)] = StageItems(n)
    BY DEF Roots, At, ItemsOf
  <1>4. RootFiles(PhaseA, Len(ItemsOf[PhaseA])) = ExpectedA
    BY <1>1, <1>2, FilesOfBaseline
  <1>5. \A n \in Stages : /\ RootFiles(At("b", n), Len(ItemsOf[At("b", n)])) = ExpectedB(n)
                          /\ RootFiles(At("c", n), Len(ItemsOf[At("c", n)])) = ExpectedC(n)
    BY <1>1, <1>3, FilesOfUnit, FilesOfStage
  <1>6. ExpectedFinal = FinalMarks \cup RootFiles(Final, Len(ItemsOf[Final]))
    BY <1>1, <1>2, FilesOfFinal
  <1> DEFINE all(r) == RootFiles(r, Len(ItemsOf[r]))
  <1>7. \A f : f \in UNION {all(r) : r \in Roots}
               <=> \/ f \in all(PhaseA) \/ f \in all(Final)
                   \/ \E n \in Stages : f \in all(At("b", n)) \cup all(At("c", n))
    <2>1. \A r : r \in Roots <=> r = PhaseA \/ r = Final
                                 \/ \E n \in Stages : r = At("b", n) \/ r = At("c", n)
      BY DEF Roots
    <2> HIDE DEF all
    <2> QED BY <2>1
  <1>8. \A f : f \in ExpectedFiles
               <=> \/ f \in ExpectedA \/ f \in ExpectedFinal
                   \/ \E n \in Stages : f \in ExpectedB(n) \cup ExpectedC(n)
    BY DEF ExpectedFiles
  <1> HIDE DEF all
  <1>9. \A f : f \in ExpectedFiles <=> f \in (UNION {all(r) : r \in Roots}) \cup FinalMarks
    BY <1>4, <1>5, <1>6, <1>7, <1>8 DEF all
  <1> QED BY <1>9 DEF all

-----------------------------------------------------------------------------
Early == {"start", "preflight", "capture", "open_baseline"}
Entering == {"enter_a", "enter_b", "enter_c", "open"}

-----------------------------------------------------------------------------
(* Where an exception is in flight. *)
Clear == Early \cup Entering \cup {"run", "assemble", "close", "verify"} \cup AcceptPlaces
Handling == {"handler", "except", "withdraw"}
Silent == {NoException, KeyboardInterrupt}

ExceptionsFollow ==
    /\ pc \in Clear => exc = NoException
    /\ pc \in Handling => exc \notin Silent

(* The exceptions of the code are neither none nor Ctrl-C. *)
LEMMA ExceptionsAreRaised ==
    /\ \A reason : MendRuneError(reason) \notin Silent /\ ConfigurationError(reason) \notin Silent
    /\ OtherError \notin Silent /\ KeyboardInterrupt # NoException
    /\ \A e \in StoreExceptions : e \notin Silent
    /\ \A e, reason : AsMendRuneError(e, reason) \notin Silent
  <1> USE DEF Silent, MendRuneError, ConfigurationError, OtherError, KeyboardInterrupt,
              NoException, Exception
  <1>1. \A reason : MendRuneError(reason) \notin Silent /\ ConfigurationError(reason) \notin Silent
    OBVIOUS
  <1>2. OtherError \notin Silent /\ KeyboardInterrupt # NoException
    OBVIOUS
  <1>3. \A e \in StoreExceptions : e \notin Silent
    BY <1>1, <1>2 DEF StoreExceptions
  <1>4. ASSUME NEW e, NEW reason PROVE AsMendRuneError(e, reason) \notin Silent
    <2>1. e \in Silent => e.class \in {"none", "interrupt"}
      OBVIOUS
    <2> HIDE DEF Silent, MendRuneError
    <2>2. IsMendRuneError(e) => e \notin Silent
      BY <2>1 DEF IsMendRuneError
    <2> QED BY <1>1, <2>2 DEF AsMendRuneError
  <1> QED BY <1>1, <1>2, <1>3, <1>4

(* Nor is what a command, an oracle or a scanner raises. *)
LEMMA CommandErrorsAreRaised ==
    /\ \A e : e \notin Silent => Rethrown(e) \notin Silent
    /\ \A effect, end : IntegrityError(effect) \notin Silent /\ EndError(end) \notin Silent
    /\ \A answer \in {"vulnerable", "mitigated", "invalid"} : ResultError(answer) \notin Silent
  BY ExceptionsAreRaised DEF Rethrown, IntegrityError, EndError, ResultError

(* A write that fails raises. *)
LEMMA FailedWriteIsRaised ==
    ASSUME NEW stores, WriteFails(stores)
    PROVE  exc' \notin Silent
  BY FailedWriteRaises DEF Silent

(* An exception is in flight in the handlers and nowhere else. *)
LEMMA ExceptionsFollowStep ==
    ASSUME ExceptionsFollow, [Next]_vars
    PROVE  ExceptionsFollow'
  <1> USE DEF ExceptionsFollow, Clear, Handling, Early, Entering, AcceptPlaces
  <1>1. CASE Prepare
    BY <1>1, ExceptionsAreRaised DEF Prepare, RejectCampaign, CreateRun, QualifyRuntime,
       RejectRuntime, CaptureInputs, FailCapture, OpenBaseline, FailBaselineWorktree, Leave
  <1>2. CASE Enter
    BY <1>2, ExceptionsAreRaised, FailedWriteIsRaised
       DEF Enter, EnterPhaseA, EnterPhaseB, EnterPhaseC, OpenWorktree
  <1>3. CASE Command
    BY <1>3, ExceptionsAreRaised, CommandErrorsAreRaised
       DEF Command, CheckPasses, CommandFails, ResultRejected, CheckRecordLost, Interrupt, AtCommand
  <1>4. CASE Patch
    BY <1>4, ExceptionsAreRaised, FailedWriteIsRaised
       DEF Patch, PatchApplies, PatchFails, PatchRecordLost, AtPatch, BeginApply, BeginVerify,
           AdvanceStage, Running
  <1>5. CASE Finish
    BY <1>5, ExceptionsAreRaised, FailedWriteIsRaised
       DEF Finish, FinishBaseline, FinishUnit, FinishStage, EnterFinal, FinishFinal,
           RejectFindings, AssembleEvidence, Running
  <1>6. CASE FailPhase \/ PersistTerminalFailure
    BY <1>6, ExceptionsAreRaised, FailedWriteIsRaised DEF FailPhase, PersistTerminalFailure, Leave
  <1>7. CASE Cleanup
    BY <1>7, ExceptionsAreRaised, FailedWriteIsRaised
       DEF Cleanup, RemoveWorktree, FailWorktreeRemoval, After, Close, FailClose, Silent
  <1>8. CASE Accept
    BY <1>8, ExceptionsAreRaised, FailedWriteIsRaised
       DEF Accept, VerifyEvidence, RejectEvidence, WriteVerdict, WriteReport, PersistAccepted,
           RecordOutcome, SealAcceptance, AcceptanceWrite, WithdrawAcceptance
  <1>9. CASE Kill \/ UNCHANGED vars
    BY <1>9 DEF Kill, vars
  <1> QED BY <1>1, <1>2, <1>3, <1>4, <1>5, <1>6, <1>7, <1>8, <1>9 DEF Next, Step, Ended

-----------------------------------------------------------------------------
(* The worktrees.  The one of a unit is open only where a finally clause   *)
(* is still to come, and the baseline one has been opened only where the   *)
(* acceptance or the except of run_campaign closes it.                     *)
Holding == {"run", "handler", "cleanup", "assemble", "killed"}
Closing == AcceptPlaces \cup {"verify", "withdraw"}

WorktreesFollow ==
    /\ pc \in Early => worktrees.baseline = "none"
    /\ closed <=> worktrees.baseline \in {"removed", "uncertain"}
    /\ pc \in Closing => closed
    /\ pc = "exit" /\ exc # KeyboardInterrupt => closed \/ worktrees.baseline = "none"
    /\ worktrees.work = "open" => pc \in Holding
    /\ root.phase = "a" => worktrees.work = "none"
    /\ pc \in Early \cup {"enter_a"} => root.phase = "a"
    /\ pc = "open" => root.phase # "a"

(* No step lets go of a worktree that is not removed. *)
LEMMA WorktreesFollowStep ==
    ASSUME TypeOK, ExceptionsFollow, WorktreesFollow, [Next]_vars
    PROVE  WorktreesFollow'
  <1>0. worktrees = [baseline |-> worktrees.baseline, work |-> worktrees.work]
    BY DEF TypeOK
  <1> USE DEF WorktreesFollow, Early, Entering, Holding, Closing, AcceptPlaces
  <1>1. CASE Prepare
    <2>1. CASE OpenBaseline
      BY <1>0, <2>1 DEF OpenBaseline, inputVars
    <2>2. CASE ~OpenBaseline
      <3>1. /\ UNCHANGED <<root, worktrees, closed>> /\ pc \in Early
            /\ pc' \in {"preflight", "capture", "open_baseline", "exit"}
        BY <1>1, <2>2 DEF Prepare, RejectCampaign, CreateRun, QualifyRuntime, RejectRuntime,
           CaptureInputs, FailCapture, FailBaselineWorktree, Leave, inputVars
      <3> QED BY <3>1
    <2> QED BY <2>1, <2>2
  <1>2. CASE Enter
    BY <1>0, <1>2, PhaseBIsNotC DEF Enter, EnterPhaseA, EnterPhaseB, EnterPhaseC, OpenWorktree, Start
  <1>3. CASE Command
    BY <1>3 DEF Command, CheckPasses, CommandFails, ResultRejected, CheckRecordLost, Interrupt,
       AtCommand, commandVars
  <1>4. CASE Patch
    BY <1>4 DEF Patch, PatchApplies, PatchFails, PatchRecordLost, AtPatch, BeginApply, BeginVerify,
       AdvanceStage, Running, commandVars
  <1>5. CASE Finish
    BY <1>5, PhaseBIsNotC DEF Finish, FinishBaseline, FinishUnit, FinishStage, EnterFinal,
       FinishFinal, RejectFindings, AssembleEvidence, Running, finishVars
  <1>6. CASE FailPhase \/ PersistTerminalFailure
    BY <1>6 DEF FailPhase, PersistTerminalFailure, Leave, finishVars
  <1>7. CASE RemoveWorktree \/ FailWorktreeRemoval
    <2>1. /\ pc = "cleanup" /\ worktrees'.work # "open" /\ worktrees'.baseline = worktrees.baseline
          /\ closed' = closed /\ pc' = After(exc') /\ NextUnit
          /\ worktrees.work = "none" => worktrees'.work = "none"
      BY <1>0, <1>7 DEF RemoveWorktree, FailWorktreeRemoval, Removed
    <2>2. /\ pc' \in {"open", "enter_c", "close", "exit", "except"}
          /\ pc' = "exit" => exc' = KeyboardInterrupt
      BY <2>1 DEF After
    <2>3. IF pc' = "open" THEN root'.phase = "b" ELSE root' = root
      BY <2>1, PhaseBIsNotC DEF NextUnit, Start
    <2> QED BY <2>1, <2>2, <2>3
  <1>8. CASE Close \/ FailClose
    BY <1>0, <1>8 DEF Close, FailClose
  <1>9. CASE Accept
    BY <1>9 DEF Accept, VerifyEvidence, RejectEvidence, WriteVerdict, WriteReport, PersistAccepted,
       RecordOutcome, SealAcceptance, AcceptanceWrite, WithdrawAcceptance, acceptVars
  <1>10. CASE Kill \/ UNCHANGED vars
    BY <1>10 DEF Kill, vars, acceptVars
  <1> QED
    BY <1>1, <1>2, <1>3, <1>4, <1>5, <1>6, <1>7, <1>8, <1>9, <1>10
       DEF Next, Step, Cleanup, Ended

(* Where an exception is in flight and where a worktree is open: the       *)
(* inductive invariant that the ends of a campaign rest on.                *)
THEOREM PlacesInvariant == Spec => [](ExceptionsFollow /\ WorktreesFollow)
  <1>1. Init => ExceptionsFollow /\ WorktreesFollow
    BY PhaseBIsNotC DEF Init, ExceptionsFollow, WorktreesFollow, Clear, Handling, Early, Entering,
       Holding, Closing, AcceptPlaces
  <1>2. TypeOK /\ (ExceptionsFollow /\ WorktreesFollow) /\ [Next]_vars
            => (ExceptionsFollow /\ WorktreesFollow)'
    BY ExceptionsFollowStep, WorktreesFollowStep
  <1> QED BY <1>1, <1>2, TypeCorrect, PTL DEF Spec

(* Whatever fails, a campaign that returns has removed every worktree it   *)
(* opened, or has tried to; the code relies for it on the finally of each  *)
(* phase and on the except of run_campaign.                                *)
THEOREM WorktreesReclaimed == Spec => []WorktreesAreReclaimed
  <1>1. WorktreesFollow => WorktreesAreReclaimed
    BY DEF WorktreesFollow, WorktreesAreReclaimed, Returned, Holding
  <1> QED BY <1>1, PlacesInvariant, PTL

-----------------------------------------------------------------------------
(* The handler of run_campaign fails once at most. *)
LEMMA FaultsOfHandler ==
    ASSUME PersistTerminalFailure
    PROVE  faults' = faults \/ faults' = faults + 1
  BY DEF PersistTerminalFailure, Writes, WriteFails, LosesOneOf, MeetsLink

(* The record is complete but for its hashes when a link is in the way. *)
LEMMA FailureRecordIsWritten ==
    ASSUME TypeOK, PersistTerminalFailure, faults' = faults
    PROVE  /\ store'.run.state \in Failures /\ store'.run.outcome = store'.run.state
           /\ Linked' \/ (store'.run.reason = exc'.reason /\ Hashed(store'))
  <1> DEFINE failure == AsMendRuneError(exc, "unexpected_exception")
             target == TerminalFailure(store.run.state, failure.reason)
             first == Persisting(store, target)
             second == Recording(store, Run(target, target, failure.reason))
             stores == FailureRecord(store, target, failure.reason)
  <1>1. target \in Failures
    BY TerminalFailureIsFailure
  <1>2. stores = <<first, second, Hashing(second)>>
    BY DEF FailureRecord
  <1>3. /\ ~Hashed(first) /\ ~Hashed(second)
        /\ second.run = Run(target, target, failure.reason) /\ second.files = store.files
        /\ Hashing(second).run = second.run /\ Hashed(Hashing(second))
        /\ first.manifest = store.manifest /\ second.manifest = store.manifest
        /\ Hashing(second).manifest = store.manifest
    BY DEF Persisting, Recording, Hashing, Hashed, TypeOK, StoreOK
  <1>4. ~LosesOneOf(stores)
    BY PolicyIsValid DEF LosesOneOf, TypeOK
  <1>5. (Writes(stores) /\ exc' = failure) \/ MeetsLink(stores)
    <2>1. (Writes(stores) /\ Leave(failure)) \/ WriteFails(stores)
      BY DEF PersistTerminalFailure
    <2>2. Leave(failure) => exc' = failure
      BY DEF Leave, AsMendRuneError, IsMendRuneError, MendRuneError, Exception
    <2> HIDE DEF stores, failure
    <2> QED BY <1>4, <2>1, <2>2 DEF WriteFails
  <1> HIDE DEF first, second, stores, target, failure
  <1>6. CASE Writes(stores) /\ exc' = failure
    <2>1. store' = Hashing(second)
      BY <1>2, <1>6 DEF Writes
    <2> QED BY <1>1, <1>3, <1>6, <2>1 DEF Run
  <1>7. CASE MeetsLink(stores)
    <2>1. PICK j \in 1..Len(stores) :
             /\ store' = Before(stores, j)
             /\ Hashed(stores[j]) \/ Lists(store', stores[j])
      BY <1>7 DEF MeetsLink
    <2>2. Len(stores) = 3
      BY <1>2
    <2>3. j = 1 \/ j = 2 \/ j = 3
      BY <2>2
    <2>4. store'.manifest = store.manifest /\ stores[j].manifest = store.manifest
      BY <1>2, <1>3, <2>1, <2>3 DEF Before
    <2>5. Hashed(stores[j])
      BY <2>1, <2>4 DEF Lists
    <2>6. j = 3
      BY <1>2, <1>3, <2>3, <2>5
    <2>7. store' = second
      BY <1>2, <2>1, <2>6 DEF Before
    <2>8. Linked /\ store'.files = store.files
      BY <1>3, <1>7, <2>7 DEF MeetsLink
    <2>9. Linked'
      BY <2>8 DEF Linked, Strays
    <2> QED BY <1>1, <1>3, <2>7, <2>9 DEF Run
  <1> QED BY <1>5, <1>6, <1>7

-----------------------------------------------------------------------------
(* The verdict and the report, and what a success leaves. *)
Contradicted ==
    /\ faults >= 2
    /\ faults = 2 => store.run.state \in Failures /\ store.run.outcome = store.run.state

(* Where a verdict or a report may be on disk, and how many calls have     *)
(* failed by then.                                                         *)
VerdictFollows ==
    {Verdict, Report} \cap store.files # {} =>
        \/ pc \in AcceptPlaces \cup {"killed"}
        \/ pc = "withdraw" /\ faults >= 1
        \/ pc = "except" /\ faults >= 2
        \/ pc = "exit" /\ (exc = NoException \/ Contradicted)

(* The hashes of the final verification are not written past a link, and   *)
(* nothing leaves one after them.                                          *)
AfterHashes ==
    \/ pc \in {"close", "verify"} \cup AcceptPlaces
    \/ pc = "cleanup" /\ exc = NoException /\ root.phase # "b"

LinksFollow == AfterHashes => ~Linked

SealFollows ==
    /\ pc = "report" => Verdict \in store.files
    /\ pc \in {"accept", "outcome", "seal"} => {Verdict, Report} \subseteq store.files
    /\ pc = "seal" => store.run = AcceptedRun
    /\ SuccessIsSealed

(* Only _accept_campaign writes a verdict or a report. *)
LEMMA VerdictIsWritten ==
    ASSUME TypeOK, [Next]_vars, NEW f \in store'.files, f.holds \in {"verdict", "report"}
    PROVE  f \in store.files \/ pc \in AcceptPlaces
  <1>1. CASE QuietAction
    BY <1>1, QuietActionsAreQuiet DEF QuietStep, Quiet
  <1>2. CASE WriteVerdict \/ WriteReport \/ PersistAccepted \/ RecordOutcome
    BY <1>2 DEF WriteVerdict, WriteReport, PersistAccepted, RecordOutcome, AcceptanceWrite,
       AcceptPlaces
  <1>3. ASSUME NEW fs, Leaves(fs), \A g \in fs : g.holds \notin {"verdict", "report"}
        PROVE  f \in store.files
    <2>1. PICK left : Plain(left) /\ store' = Adding(store, fs \cup left)
      BY <1>3, LeavesAddsPlain DEF TypeOK
    <2>2. store'.files = store.files \cup (fs \cup left)
      BY <2>1 DEF Adding, TypeOK, StoreOK
    <2> QED BY <1>3, <2>1, <2>2 DEF Plain
  <1>4. \A status \in {"passed", "failed"} :
            /\ CheckFile(root, step, Item, status).holds = "check"
            /\ IntegrityFile(root, step, Item, status).holds = "integrity"
    BY DEF CheckFile, IntegrityFile, File
  <1>5. CASE CheckPasses
    <2>1. \A g \in CommandFiles(root, step, Item) : g.holds \notin {"verdict", "report"}
      BY DEF CommandFiles, ResultFiles, CheckFile, IntegrityFile, File
    <2> QED BY <1>3, <1>5, <2>1 DEF CheckPasses
  <1>6. CASE PatchApplies
    <2>1. store'.files = store.files \cup {PatchFile(root, step, Item)}
      BY <1>6 DEF PatchApplies, Adding, TypeOK, StoreOK
    <2>2. PatchFile(root, step, Item).holds = "patch"
      BY DEF PatchFile, File
    <2> QED BY <2>1, <2>2
  <1>7. CASE CommandFails \/ ResultRejected \/ CheckRecordLost
    <2>1. PICK fs : /\ Leaves(fs)
                    /\ fs \subseteq {CheckFile(root, step, Item, "passed"),
                                     CheckFile(root, step, Item, "failed"),
                                     IntegrityFile(root, step, Item, "passed"),
                                     IntegrityFile(root, step, Item, "failed")}
      BY <1>7 DEF CommandFails, ResultRejected, CheckRecordLost
    <2>2. \A g \in fs : g.holds \notin {"verdict", "report"}
      BY <1>4, <2>1
    <2> QED BY <1>3, <2>1, <2>2
  <1> QED
    BY <1>1, <1>2, <1>5, <1>6, <1>7, ActionsAreQuietOrRecorded DEF RecordedAction

(* What can happen once the evidence is verified. *)
LEMMA StepsOfAcceptance ==
    ASSUME [Next]_vars, pc \in AcceptPlaces \cup {"withdraw", "exit", "killed"}
    PROVE  \/ WriteVerdict \/ WriteReport \/ PersistAccepted \/ RecordOutcome \/ SealAcceptance
           \/ WithdrawAcceptance \/ Kill \/ UNCHANGED vars
  <1> USE DEF AcceptPlaces
  <1>1. ~Prepare
    BY DEF Prepare, RejectCampaign, CreateRun, QualifyRuntime, RejectRuntime, CaptureInputs,
       FailCapture, OpenBaseline, FailBaselineWorktree
  <1>2. ~Enter
    BY DEF Enter, EnterPhaseA, EnterPhaseB, EnterPhaseC, OpenWorktree
  <1>3. ~Command /\ ~Patch
    BY DEF Command, CheckPasses, CommandFails, ResultRejected, CheckRecordLost, Interrupt, AtCommand,
       Patch, PatchApplies, PatchFails, PatchRecordLost, AtPatch, BeginApply, BeginVerify, Running
  <1>4. ~Finish
    BY DEF Finish, FinishBaseline, FinishUnit, FinishStage, EnterFinal, FinishFinal, RejectFindings,
       AssembleEvidence, Running
  <1>5. ~FailPhase /\ ~PersistTerminalFailure /\ ~Cleanup
    BY DEF FailPhase, PersistTerminalFailure, Cleanup, RemoveWorktree, FailWorktreeRemoval, Close,
       FailClose
  <1>6. ~VerifyEvidence /\ ~RejectEvidence
    BY DEF VerifyEvidence, RejectEvidence
  <1> QED BY <1>1, <1>2, <1>3, <1>4, <1>5, <1>6 DEF Next, Step, Accept, Ended

(* And in the except of run_campaign. *)
LEMMA StepsOfHandler ==
    ASSUME [Next]_vars, pc = "except"
    PROVE  PersistTerminalFailure \/ Close \/ FailClose \/ Kill \/ UNCHANGED vars
  <1>1. ~Prepare
    BY DEF Prepare, RejectCampaign, CreateRun, QualifyRuntime, RejectRuntime, CaptureInputs,
       FailCapture, OpenBaseline, FailBaselineWorktree
  <1>2. ~Enter
    BY DEF Enter, EnterPhaseA, EnterPhaseB, EnterPhaseC, OpenWorktree
  <1>3. ~Command /\ ~Patch
    BY DEF Command, CheckPasses, CommandFails, ResultRejected, CheckRecordLost, Interrupt, AtCommand,
       Patch, PatchApplies, PatchFails, PatchRecordLost, AtPatch, BeginApply, BeginVerify, Running
  <1>4. ~Finish /\ ~FailPhase
    BY DEF Finish, FinishBaseline, FinishUnit, FinishStage, EnterFinal, FinishFinal, RejectFindings,
       AssembleEvidence, Running, FailPhase
  <1>5. ~Accept
    BY DEF Accept, VerifyEvidence, RejectEvidence, WriteVerdict, WriteReport, PersistAccepted,
       RecordOutcome, SealAcceptance, AcceptanceWrite, WithdrawAcceptance
  <1>6. Cleanup => Close \/ FailClose
    BY DEF Cleanup, RemoveWorktree, FailWorktreeRemoval
  <1> QED BY <1>1, <1>2, <1>3, <1>4, <1>5, <1>6 DEF Next, Step, Ended

(* A link on disk was there before, unless the step added it. *)
LEMMA NoNewLink ==
    ASSUME ~Linked, \A f \in store'.files : f.holds = "link" => f \in store.files
    PROVE  ~Linked'
  BY DEF Linked, Strays

(* Which steps lead to where no link is. *)
LEMMA WayPastHashes ==
    ASSUME ExceptionsFollow, [Next]_vars, AfterHashes'
    PROVE  \/ AssembleEvidence /\ pc' = "cleanup"
           \/ AfterHashes /\ (Cleanup \/ Accept)
           \/ UNCHANGED vars
  <1> USE DEF AfterHashes, AcceptPlaces
  <1>1. ~Prepare
    BY DEF Prepare, RejectCampaign, CreateRun, QualifyRuntime, RejectRuntime, CaptureInputs,
       FailCapture, OpenBaseline, FailBaselineWorktree, Leave
  <1>2. ~Enter
    BY DEF Enter, EnterPhaseA, EnterPhaseB, EnterPhaseC, OpenWorktree
  <1>3. ~Command /\ ~Patch
    BY ExceptionsAreRaised DEF Command, CheckPasses, CommandFails, ResultRejected, CheckRecordLost,
       Interrupt, AtCommand, Patch, PatchApplies, PatchFails, PatchRecordLost, AtPatch, BeginApply,
       BeginVerify, AdvanceStage, Running
  <1>4. ~FailPhase /\ ~PersistTerminalFailure /\ ~Kill
    <2>1. FailPhase => exc' \notin Silent
      BY ExceptionsAreRaised, FailedWriteIsRaised DEF FailPhase
    <2> QED BY <2>1 DEF FailPhase, PersistTerminalFailure, Leave, Kill, Silent
  <1>5. Finish => AssembleEvidence /\ pc' = "cleanup"
    BY DEF Finish, FinishBaseline, FinishUnit, FinishStage, EnterFinal, FinishFinal, RejectFindings,
       AssembleEvidence, Running
  <1>6. Cleanup => AfterHashes
    <2>1. exc' = NoException => exc = NoException
      BY ExceptionsStay
    <2>2. RemoveWorktree \/ FailWorktreeRemoval => pc = "cleanup" /\ pc' = After(exc')
      BY DEF RemoveWorktree, FailWorktreeRemoval
    <2>3. RemoveWorktree \/ FailWorktreeRemoval => AfterHashes
      BY <2>1, <2>2 DEF After
    <2>4. Close \/ FailClose => AfterHashes
      BY DEF Close, FailClose
    <2> QED BY <2>3, <2>4 DEF Cleanup
  <1>7. Accept => AfterHashes
    BY DEF Accept, VerifyEvidence, RejectEvidence, WriteVerdict, WriteReport, PersistAccepted,
       RecordOutcome, SealAcceptance, AcceptanceWrite, WithdrawAcceptance
  <1> QED BY <1>1, <1>2, <1>3, <1>4, <1>5, <1>6, <1>7 DEF Next, Step, Ended

(* No link gets past the hashes. *)
LEMMA LinksFollowStep ==
    ASSUME TypeOK, ExceptionsFollow, LinksFollow, [Next]_vars
    PROVE  LinksFollow'
  <1> SUFFICES ASSUME AfterHashes' PROVE ~Linked'
    BY DEF LinksFollow
  <1>0. /\ \A fs : Adding(store, fs).files = store.files \cup fs
        /\ \A run : Recording(store, run).files = store.files
        /\ Hashing(store).files = store.files
    BY DEF Adding, Recording, Hashing, TypeOK, StoreOK
  <1>1. CASE AssembleEvidence /\ pc' = "cleanup"
    <2> DEFINE advanced == Persisting(store, "assembling_evidence")
               prepared == Adding(advanced, {Single(Final, "verdict-prep", "none")})
               listed == Listing(prepared, Final)
               stores == <<advanced, prepared, listed, Hashing(listed)>>
    <2>1. Writes(stores)
      BY <1>1 DEF AssembleEvidence
    <2>2. /\ Hashed(Hashing(listed))
          /\ Hashing(listed).files = store.files \cup {Single(Final, "verdict-prep", "none")}
      BY DEF Persisting, Recording, Adding, Listing, Hashing, Hashed, TypeOK, StoreOK
    <2> HIDE DEF advanced, prepared, listed
    <2>3. Len(stores) = 4 /\ stores[4] = Hashing(listed)
      OBVIOUS
    <2>4. ~Linked /\ store' = Hashing(listed)
      BY <2>1, <2>2, <2>3 DEF Writes, Reached
    <2>5. Single(Final, "verdict-prep", "none").holds = "verdict-prep"
      BY DEF Single, File
    <2> HIDE DEF stores
    <2> QED BY <2>2, <2>4, <2>5, NoNewLink
  <1>2. CASE AfterHashes /\ Cleanup
    <2>1. ~Linked
      BY <1>2 DEF LinksFollow
    <2>2. CASE FailWorktreeRemoval
      <3> DEFINE f == Single(IF root.phase = "b" THEN root ELSE PhaseC, "cleanup-failure", "failed")
                 noted == Adding(store, {f})
                 stores == <<noted, Hashing(noted)>>
      <3>1. Writes(stores) \/ WriteFails(stores)
        BY <2>2 DEF FailWorktreeRemoval
      <3>2. noted.files = store.files \cup {f} /\ Hashing(noted).files = noted.files
        BY DEF Adding, Hashing, TypeOK, StoreOK
      <3>3. f.holds = "cleanup-failure"
        BY DEF Single, File
      <3> HIDE DEF f, noted
      <3>4. Len(stores) = 2 /\ stores[1] = noted /\ stores[2] = Hashing(noted)
        OBVIOUS
      <3> HIDE DEF stores
      <3>5. store' = store \/ \E j \in 1..Len(stores) : store' = stores[j]
        <4>1. Len(stores) \in Nat \ {0} /\ faults \in 0..MaxStoreFaults
          BY <3>4 DEF TypeOK
        <4> QED BY ONLY <3>1, <4>1, StoreAfterWrites
      <3>6. store' = store \/ store' = noted \/ store' = Hashing(noted)
        <4>1. 1..2 = {1, 2}
          OBVIOUS
        <4> QED BY <3>4, <3>5, <4>1
      <3> QED BY <2>1, <3>2, <3>3, <3>6, NoNewLink
    <2>3. CASE RemoveWorktree \/ Close \/ FailClose
      BY <2>1, <2>3, NoNewLink DEF RemoveWorktree, Close, FailClose
    <2> QED BY <1>2, <2>2, <2>3 DEF Cleanup
  <1>3. CASE AfterHashes /\ Accept
    <2>1. ~Linked
      BY <1>3 DEF LinksFollow
    <2>2. Verdict.holds = "verdict" /\ Report.holds = "report"
      BY DEF Verdict, Report, Single, File
    <2>3. \A s : Writes(<<s>>) \/ WriteFails(<<s>>) => store' = store \/ store' = s
      BY OneWrite
    <2>4. CASE WriteVerdict \/ WriteReport \/ PersistAccepted \/ RecordOutcome \/ SealAcceptance
      <3>1. store'.files \subseteq store.files \cup {Verdict, Report}
        BY <1>0, <2>3, <2>4 DEF WriteVerdict, WriteReport, PersistAccepted, RecordOutcome,
           SealAcceptance, AcceptanceWrite, Persisting
      <3> QED BY <2>1, <2>2, <3>1, NoNewLink
    <2>5. CASE VerifyEvidence \/ RejectEvidence
      BY <2>1, <2>5, NoNewLink DEF VerifyEvidence, RejectEvidence
    <2>6. ~WithdrawAcceptance
      BY DEF WithdrawAcceptance, AfterHashes, AcceptPlaces
    <2> QED BY <1>3, <2>4, <2>5, <2>6 DEF Accept
  <1>4. CASE UNCHANGED vars
    BY <1>4 DEF vars, AfterHashes, LinksFollow, Linked, Strays
  <1> QED BY <1>1, <1>2, <1>3, <1>4, WayPastHashes

(* A verdict on disk stays within the acceptance or is withdrawn, unless   *)
(* the removal fails after the acceptance has.                             *)
LEMMA VerdictFollowsStep ==
    ASSUME TypeOK, ExceptionsFollow, LinksFollow, VerdictFollows, [Next]_vars
    PROVE  VerdictFollows'
  <1> SUFFICES ASSUME {Verdict, Report} \cap store'.files # {}
               PROVE  \/ pc' \in AcceptPlaces \cup {"killed"}
                      \/ pc' = "withdraw" /\ faults' >= 1
                      \/ pc' = "except" /\ faults' >= 2
                      \/ pc' = "exit" /\ (exc' = NoException \/ Contradicted')
    BY DEF VerdictFollows
  <1>0. faults \in Nat
    BY PolicyIsValid DEF TypeOK
  <1>1. {Verdict, Report} \cap store.files # {} \/ pc \in AcceptPlaces
    <2>1. PICK f \in {Verdict, Report} : f \in store'.files
      OBVIOUS
    <2>2. f.holds \in {"verdict", "report"}
      BY DEF Verdict, Report, Single, File
    <2> QED BY <2>1, <2>2, VerdictIsWritten
  <1>2. \/ pc \in AcceptPlaces \cup {"killed"}
        \/ pc = "withdraw" /\ faults >= 1
        \/ pc = "except" /\ faults >= 2
        \/ pc = "exit" /\ (exc = NoException \/ Contradicted)
    BY <1>1 DEF VerdictFollows
  <1>3. CASE WithdrawAcceptance
    <2>1. \A state, reason :
            LET record == FailureRecord(Withdrawn(store), state, reason)
            IN  /\ Len(record) = 3
                /\ \A s \in {Withdrawn(store), record[1], record[2], record[3]} :
                      s.files = store.files \ {Verdict, Report}
      BY DEF Withdrawn, FailureRecord, Persisting, Recording, Hashing, TypeOK, StoreOK
    <2>2. \/ store'.files = store.files \ {Verdict, Report}
          \/ faults' = faults + 1
      BY <1>3, <2>1 DEF WithdrawAcceptance, Writes
    <2>3. pc = "withdraw" /\ pc' = "except"
      BY <1>3 DEF WithdrawAcceptance
    <2>4. faults >= 1
      BY <1>2, <2>3 DEF AcceptPlaces
    <2> QED BY <1>0, <2>2, <2>3, <2>4
  <1>4. CASE WriteVerdict \/ WriteReport \/ PersistAccepted \/ RecordOutcome \/ SealAcceptance
    <2>1. pc \in AcceptPlaces
      BY <1>4 DEF WriteVerdict, WriteReport, PersistAccepted, RecordOutcome, SealAcceptance,
         AcceptanceWrite, AcceptPlaces
    <2>2. ~Linked /\ exc = NoException
      BY <2>1 DEF LinksFollow, AfterHashes, ExceptionsFollow, Clear
    <2>3. \A s : WriteFails(<<s>>) => faults' = faults + 1
      BY <2>2 DEF WriteFails, LosesOneOf, MeetsLink
    <2>4. \/ pc' \in AcceptPlaces \cup {"exit"} /\ exc' = exc
          \/ pc' = "withdraw" /\ faults' = faults + 1
      BY <1>4, <2>3 DEF WriteVerdict, WriteReport, PersistAccepted, RecordOutcome, SealAcceptance,
         AcceptanceWrite, AcceptPlaces
    <2> QED BY <1>0, <2>2, <2>4
  <1>5. CASE Kill
    BY <1>5 DEF Kill
  <1>6. CASE UNCHANGED vars
    BY <1>2, <1>6 DEF vars, Contradicted
  <1>7. CASE pc = "except" /\ PersistTerminalFailure
    <2>1. faults >= 2 /\ pc' = "exit"
      BY <1>2, <1>7 DEF PersistTerminalFailure, Leave, AcceptPlaces
    <2>2. CASE faults' = faults + 1
      BY <1>0, <2>1, <2>2 DEF Contradicted
    <2>3. CASE faults' = faults
      BY <1>0, <1>7, <2>1, <2>3, FailureRecordIsWritten DEF Contradicted
    <2> QED BY <1>7, <2>2, <2>3, FaultsOfHandler
  <1>8. CASE pc = "except" /\ (Close \/ FailClose)
    BY <1>2, <1>8 DEF Close, FailClose, AcceptPlaces
  <1>9. CASE pc = "except"
    BY <1>5, <1>6, <1>7, <1>8, <1>9, StepsOfHandler
  <1> QED BY <1>2, <1>3, <1>4, <1>5, <1>6, <1>9, StepsOfAcceptance

(* A campaign returns without an exception in one way only. *)
LEMMA WayToSuccess ==
    ASSUME ExceptionsFollow, [Next]_vars, pc' = "exit", exc' = NoException
    PROVE  SealAcceptance \/ UNCHANGED vars
  <1>1. exc = NoException
    BY ExceptionsStay
  <1>2. ~Prepare
    BY ExceptionsAreRaised DEF Prepare, RejectCampaign, CreateRun, QualifyRuntime, RejectRuntime,
       CaptureInputs, FailCapture, OpenBaseline, FailBaselineWorktree, Leave, Silent
  <1>3. ~Enter
    BY DEF Enter, EnterPhaseA, EnterPhaseB, EnterPhaseC, OpenWorktree
  <1>4. ~Command /\ ~Patch
    BY ExceptionsAreRaised DEF Command, CheckPasses, CommandFails, ResultRejected, CheckRecordLost,
       Interrupt, AtCommand, Patch, PatchApplies, PatchFails, PatchRecordLost, AtPatch, BeginApply,
       BeginVerify, AdvanceStage, Running
  <1>5. ~Finish
    BY DEF Finish, FinishBaseline, FinishUnit, FinishStage, EnterFinal, FinishFinal, RejectFindings,
       AssembleEvidence, Running
  <1>6. ~FailPhase /\ ~PersistTerminalFailure
    BY <1>1 DEF FailPhase, PersistTerminalFailure, ExceptionsFollow, Handling, Silent
  <1>7. ~Cleanup
    BY ExceptionsAreRaised DEF Cleanup, RemoveWorktree, FailWorktreeRemoval, After, Close, FailClose
  <1> QED
    BY <1>2, <1>3, <1>4, <1>5, <1>6, <1>7
       DEF Next, Step, Accept, VerifyEvidence, RejectEvidence, WriteVerdict, WriteReport,
           PersistAccepted, RecordOutcome, AcceptanceWrite, WithdrawAcceptance, Kill, Ended

(* Each write of the acceptance leaves what the next one finds. *)
LEMMA SealFollowsStep ==
    ASSUME TypeOK, ExceptionsFollow, SealFollows, [Next]_vars
    PROVE  SealFollows'
  <1>0. /\ \A fs : Adding(store, fs).files = store.files \cup fs
        /\ Recording(store, AcceptedRun).files = store.files
        /\ Recording(store, AcceptedRun).run = AcceptedRun
        /\ Persisting(store, "accepted").files = store.files
        /\ Hashing(store).files = store.files /\ Hashing(store).run = store.run
        /\ Hashed(Hashing(store))
    BY DEF Adding, Recording, Persisting, Hashing, Hashed, TypeOK, StoreOK
  <1>1. \A s : Writes(<<s>>) => store' = s
    BY DEF Writes
  <1>2. CASE UNCHANGED vars
    BY <1>2 DEF vars, SealFollows, SuccessIsSealed, Succeeded, Returned, Hashed
  <1>3. ASSUME pc' \in {"report", "accept", "outcome", "seal"}, ~UNCHANGED vars
        PROVE  /\ pc' = "report" => Verdict \in store'.files
               /\ pc' \in {"accept", "outcome", "seal"} => {Verdict, Report} \subseteq store'.files
               /\ pc' = "seal" => store'.run = AcceptedRun
    <2>1. pc \in AcceptPlaces \/ VerifyEvidence
      BY <1>3, WayToAcceptance DEF AcceptPlaces
    <2>2. pc \in AcceptPlaces
      BY <1>3, <2>1 DEF VerifyEvidence
    <2>3. \/ WriteVerdict /\ store' = Adding(store, {Verdict}) /\ pc' = "report"
          \/ WriteReport /\ store' = Adding(store, {Report}) /\ pc' = "accept"
          \/ PersistAccepted /\ store' = Persisting(store, "accepted") /\ pc' = "outcome"
          \/ RecordOutcome /\ store' = Recording(store, AcceptedRun) /\ pc' = "seal"
      BY <1>1, <1>3, <2>2, StepsOfAcceptance
         DEF WriteVerdict, WriteReport, PersistAccepted, RecordOutcome, SealAcceptance,
             AcceptanceWrite, WithdrawAcceptance, Kill
    <2> QED
      BY <1>0, <2>3 DEF SealFollows, WriteVerdict, WriteReport, PersistAccepted, RecordOutcome,
         AcceptanceWrite
  <1>4. ASSUME pc' = "exit", exc' = NoException, ~UNCHANGED vars
        PROVE  /\ store'.run = AcceptedRun /\ {Verdict, Report} \subseteq store'.files
               /\ Hashed(store')
    <2>1. SealAcceptance
      BY <1>4, WayToSuccess
    <2>2. store' = Hashing(store) /\ pc = "seal"
      BY <1>1, <1>4, <2>1 DEF SealAcceptance, AcceptanceWrite
    <2> QED BY <1>0, <2>2 DEF SealFollows
  <1> QED BY <1>2, <1>3, <1>4 DEF SealFollows, SuccessIsSealed, Succeeded, Returned

(* Where a verdict may be on disk and how many calls have failed by then,  *)
(* and what each write of the acceptance leaves for the next.  Outside the *)
(* acceptance and its handler a verdict is there only after a failed write *)
(* and a failed removal of it (orchestrator.py:1659-1664).                 *)
THEOREM VerdictInvariant == Spec => [](LinksFollow /\ VerdictFollows /\ SealFollows)
  <1>1. Init => LinksFollow /\ VerdictFollows /\ SealFollows
    BY DEF Init, LinksFollow, AfterHashes, AcceptPlaces, VerdictFollows, SealFollows,
       SuccessIsSealed, Succeeded, Returned, EmptyStore
  <1>2. TypeOK /\ (ExceptionsFollow /\ WorktreesFollow)
            /\ (LinksFollow /\ VerdictFollows /\ SealFollows)
            /\ [Next]_vars => (LinksFollow /\ VerdictFollows /\ SealFollows)'
    BY LinksFollowStep, VerdictFollowsStep, SealFollowsStep
  <1> QED BY <1>1, <1>2, TypeCorrect, PlacesInvariant, PTL DEF Spec

(* A campaign that returned a verdict left a record that says the same,    *)
(* the verdict and the report, and hashes of everything on disk.           *)
THEOREM SuccessSealed == Spec => []SuccessIsSealed
  <1>1. SealFollows => SuccessIsSealed
    BY DEF SealFollows
  <1> QED BY <1>1, VerdictInvariant, PTL

(* A campaign that failed leaves a verdict or a report only if a write of  *)
(* the acceptance failed and then an unlink of its handler                 *)
(* (orchestrator.py:1662-1663); run.yaml contradicts them, unless the      *)
(* handler of run_campaign failed too.                                     *)
THEOREM FailureContradictsVerdict == Spec => []LeftVerdictIsContradicted
  <1>1. VerdictFollows => LeftVerdictIsContradicted
    BY DEF VerdictFollows, Contradicted, LeftVerdictIsContradicted, Failed, Returned, AcceptPlaces
  <1> QED BY <1>1, VerdictInvariant, PTL

-----------------------------------------------------------------------------
(* The record of a failure. *)

(* Besides preflight only the except of run_campaign raises to its caller. *)
LEMMA WayToFailure ==
    ASSUME ExceptionsFollow, [Next]_vars, pc' = "exit", exc' \notin Silent
    PROVE  Prepare \/ PersistTerminalFailure \/ UNCHANGED vars
  <1> USE DEF Silent
  <1>1. ~Enter
    BY DEF Enter, EnterPhaseA, EnterPhaseB, EnterPhaseC, OpenWorktree
  <1>2. ~Command /\ ~Patch
    BY DEF Command, CheckPasses, CommandFails, ResultRejected, CheckRecordLost,
       Interrupt, AtCommand, Patch, PatchApplies, PatchFails, PatchRecordLost, AtPatch, BeginApply,
       BeginVerify, AdvanceStage, Running
  <1>3. ~Finish
    BY DEF Finish, FinishBaseline, FinishUnit, FinishStage, EnterFinal, FinishFinal, RejectFindings,
       AssembleEvidence, Running
  <1>4. ~FailPhase
    BY DEF FailPhase
  <1>5. ~Cleanup
    BY DEF Cleanup, RemoveWorktree, FailWorktreeRemoval, After, Close, FailClose
  <1>6. ~Accept
    BY DEF ExceptionsFollow, Clear, AcceptPlaces, Accept, VerifyEvidence, RejectEvidence,
       WriteVerdict, WriteReport, PersistAccepted, RecordOutcome, SealAcceptance, AcceptanceWrite,
       WithdrawAcceptance
  <1> QED BY <1>1, <1>2, <1>3, <1>4, <1>5, <1>6 DEF Next, Step, Kill, Ended

(* No later step undoes the record. *)
LEMMA FailureRecordedStep ==
    ASSUME TypeOK, ExceptionsFollow, WorktreesFollow, FailureIsRecorded, [Next]_vars
    PROVE  FailureIsRecorded'
  <1> SUFFICES ASSUME pc' = "exit", exc' \notin Silent, worktrees'.baseline # "none", faults' = 0
               PROVE  /\ store'.run.state \in Failures /\ store'.run.outcome = store'.run.state
                      /\ Linked' \/ (store'.run.reason = exc'.reason /\ Hashed(store'))
    BY DEF FailureIsRecorded, Failed, Returned, Silent
  <1>1. CASE Prepare
    <2>1. pc \in Early /\ worktrees' = worktrees
      BY <1>1 DEF Prepare, RejectCampaign, CreateRun, QualifyRuntime, RejectRuntime, CaptureInputs,
         FailCapture, OpenBaseline, FailBaselineWorktree, Early
    <2> QED BY <2>1 DEF WorktreesFollow
  <1>2. CASE PersistTerminalFailure
    <2>1. faults' = faults
      BY <1>2, FaultsOfHandler DEF TypeOK
    <2> QED BY <1>2, <2>1, FailureRecordIsWritten
  <1>3. CASE UNCHANGED vars
    BY <1>3 DEF vars, FailureIsRecorded, Failed, Returned, Linked, Strays, Hashed, Silent
  <1> QED BY <1>1, <1>2, <1>3, WayToFailure

(* As long as the run store can be written, every failure after preflight  *)
(* is on disk when run_campaign raises it: the state, the outcome, and,    *)
(* unless a link is in the way, the reason and the hashes.                 *)
THEOREM FailureRecorded == Spec => []FailureIsRecorded
  <1>1. Init => FailureIsRecorded
    BY DEF Init, FailureIsRecorded, Failed, Returned
  <1>2. TypeOK /\ (ExceptionsFollow /\ WorktreesFollow) /\ FailureIsRecorded /\ [Next]_vars
            => FailureIsRecorded'
    BY FailureRecordedStep
  <1> QED BY <1>1, <1>2, TypeCorrect, PlacesInvariant, PTL DEF Spec

-----------------------------------------------------------------------------
(* Which state each step of the program persists. *)
Persists(state) ==
    \/ pc = "start" /\ state \in {"created", "validating", "preflight"}
    \/ pc = "preflight" /\ state = "capturing_inputs"
    \/ pc = "capture" /\ state = "phase_a_baseline"
    \/ (RejectRuntime \/ FailBaselineWorktree) /\ state = "infrastructure_error"
    \/ (FailCapture \/ WithdrawAcceptance) /\ state = "evidence_failure"
    \/ pc = "enter_b" /\ state = "phase_b_isolated"
    \/ pc = "enter_c" /\ state = "phase_c_preapply"
    \/ BeginApply /\ state = "phase_c_apply"
    \/ BeginVerify /\ state = "phase_c_verify"
    \/ Running("c") /\ ~Unfinished /\ state \in {"phase_c_preapply", "final_verification"}
    \/ pc = "assemble" /\ state = "assembling_evidence"
    \/ FailPhase /\ state = FailureState
    \/ /\ PersistTerminalFailure
       /\ \E reason : state = TerminalFailure(store.run.state, reason)
    \/ pc \in {"accept", "outcome"} /\ state = "accepted"

(* A store whose state is one of those in R. *)
Says(R, s) == DOMAIN s = {"files", "manifest", "run", "hashes"} /\ s.run.state \in R

(* Only Persisting and Recording write a state. *)
LEMMA WritesOfStates ==
    ASSUME NEW R, NEW s, Says(R, s)
    PROVE  /\ \A fs : Says(R, Adding(s, fs))
           /\ \A r : Says(R, Listing(s, r))
           /\ Says(R, Hashing(s)) /\ Says(R, Withdrawn(s)) /\ Says(R, WithdrawnVerdict(s))
           /\ \A state \in R : Says(R, Persisting(s, state))
           /\ \A state \in R : \A reason : Says(R, Recording(s, Run(state, state, reason)))
  BY DEF Says, Adding, Listing, Hashing, Withdrawn, WithdrawnVerdict, Persisting, Recording,
     Run

(* The state that a list of writes leaves is one of those it writes. *)
LEMMA StatesAfterWrites ==
    ASSUME TypeOK, NEW stores, Len(stores) \in Nat \ {0}, NEW R, Says(R, store),
           \A j \in 1..Len(stores) : Says(R, stores[j]),
           Writes(stores) \/ LosesOneOf(stores) \/ WriteFails(stores)
    PROVE  store'.run.state \in R
  <1>1. store' = store \/ \E j \in 1..Len(stores) : store' = stores[j]
    BY StoreAfterWrites DEF TypeOK
  <1> QED BY <1>1 DEF Says

(* The same for a single write. *)
LEMMA StateAfterWrite ==
    ASSUME NEW R, Says(R, store), NEW s, Says(R, s),
           Writes(<<s>>) \/ LosesOneOf(<<s>>) \/ WriteFails(<<s>>)
    PROVE  store'.run.state \in R
  BY OneWrite DEF Says

(* And for three. *)
LEMMA StateAfterThreeWrites ==
    ASSUME TypeOK, NEW R, Says(R, store),
           NEW r, NEW s, NEW u, Says(R, r), Says(R, s), Says(R, u),
           Writes(<<r, s, u>>) \/ LosesOneOf(<<r, s, u>>) \/ WriteFails(<<r, s, u>>)
    PROVE  store'.run.state \in R
  <1> DEFINE stores == <<r, s, u>>
  <1>1. Len(stores) \in Nat \ {0} /\ \A j \in 1..Len(stores) : Says(R, stores[j])
    OBVIOUS
  <1>2. Writes(stores) \/ LosesOneOf(stores) \/ WriteFails(stores)
    OBVIOUS
  <1> HIDE DEF stores
  <1> QED BY <1>1, <1>2, StatesAfterWrites


(* The state on disk is one the program was to persist at that place. *)
LEMMA StatesArePersisted ==
    ASSUME TypeOK, [Next]_vars, store'.run.state # store.run.state
    PROVE  Persists(store'.run.state)
  <1> DEFINE now == store.run.state
  <1>0. \A R : now \in R => Says(R, store)
    BY DEF Says, TypeOK, StoreOK
  <1>1. CASE Prepare
    <2>1. CASE RejectCampaign \/ OpenBaseline
      BY <2>1 DEF RejectCampaign, OpenBaseline
    <2>2. CASE CreateRun
      <3> DEFINE R == {now, "created", "validating", "preflight"}
      <3>1. Says(R, Persisting(store, "created")) /\ Says(R, Persisting(store, "validating"))
            /\ Says(R, Persisting(store, "preflight"))
        BY <1>0, WritesOfStates
      <3>2. store'.run.state \in R
        BY <1>0, <2>2, <3>1, StateAfterThreeWrites DEF CreateRun
      <3> QED BY <2>2, <3>2 DEF Persists, CreateRun
    <2>3. CASE QualifyRuntime \/ RejectRuntime \/ FailBaselineWorktree
      <3>1. \A state : Says({now, state}, Persisting(store, state))
        BY <1>0, WritesOfStates
      <3>2. \A state : Writes(<<Persisting(store, state)>>) \/ LosesOneOf(<<Persisting(store, state)>>)
                => store'.run.state = state
        BY <1>0, <3>1, StateAfterWrite
      <3>3. CASE QualifyRuntime
        BY <3>2, <3>3 DEF Persists, QualifyRuntime
      <3>4. CASE RejectRuntime \/ FailBaselineWorktree
        <4>1. store'.run.state = "infrastructure_error"
          BY <3>2, <3>4 DEF RejectRuntime, FailBaselineWorktree
        <4> QED BY <3>4, <4>1 DEF Persists
      <3> QED BY <2>3, <3>3, <3>4
    <2>4. CASE CaptureInputs
      <3> DEFINE R == {now, "phase_a_baseline"}
      <3>1. PICK left \in Left(Inputs, Leavings \cap {"record"}) :
              LET captured == Adding(store, {Single(Inputs, "inputs", "passed")} \cup left)
                  advanced == Persisting(captured, "phase_a_baseline")
                  stores == <<captured, advanced, Hashing(advanced)>>
              IN  Writes(stores) \/ LosesOneOf(stores)
        BY <2>4 DEF CaptureInputs
      <3> DEFINE captured == Adding(store, {Single(Inputs, "inputs", "passed")} \cup left)
                 advanced == Persisting(captured, "phase_a_baseline")
                 stores == <<captured, advanced, Hashing(advanced)>>
      <3>2. Says(R, captured)
        BY <1>0, WritesOfStates
      <3>3. Says(R, advanced)
        BY <3>2, WritesOfStates
      <3>4. Says(R, Hashing(advanced))
        BY <3>3, WritesOfStates
      <3>5. Writes(stores) \/ LosesOneOf(stores)
        BY <3>1
      <3>6. Says(R, store)
        BY <1>0
      <3> HIDE DEF captured, advanced, R
      <3>7. store'.run.state \in R
        BY <3>2, <3>3, <3>4, <3>5, <3>6, StateAfterThreeWrites
      <3> QED BY <2>4, <3>7 DEF R, Persists, CaptureInputs
    <2>5. CASE FailCapture
      <3>1. Says({now, "evidence_failure"}, Persisting(store, "evidence_failure"))
        BY <1>0, WritesOfStates
      <3>2. \/ store' = Persisting(store, "evidence_failure")
            \/ Writes(<<Persisting(store, "evidence_failure")>>)
            \/ LosesOneOf(<<Persisting(store, "evidence_failure")>>)
        BY <2>5 DEF FailCapture
      <3>3. store'.run.state \in {now, "evidence_failure"}
        BY <1>0, <3>1, <3>2, StateAfterWrite DEF Says
      <3> QED BY <2>5, <3>3 DEF Persists
    <2> QED BY <1>1, <2>1, <2>2, <2>3, <2>4, <2>5 DEF Prepare
  <1>2. ASSUME NEW state,
               \/ Writes(<<Persisting(store, state)>>) \/ WriteFails(<<Persisting(store, state)>>)
        PROVE  store'.run.state = state
    <2>1. Says({now, state}, Persisting(store, state))
      BY <1>0, WritesOfStates
    <2> QED BY <1>0, <1>2, <2>1, StateAfterWrite
  <1>3. CASE Enter
    BY <1>2, <1>3 DEF Persists, Enter, EnterPhaseA, EnterPhaseB, EnterPhaseC, OpenWorktree
  <1>4. CASE Command \/ PatchApplies \/ PatchFails \/ PatchRecordLost
    <2>1. ASSUME NEW fs PROVE Adding(store, fs).run.state = now
      <3>1. Says({now}, store)
        BY <1>0
      <3>2. Says({now}, Adding(store, fs))
        BY <3>1, WritesOfStates
      <3> QED BY <3>2 DEF Says
    <2>2. store'.run.state = now
      BY <1>4, <2>1 DEF Command, CheckPasses, CommandFails, ResultRejected, CheckRecordLost, Interrupt,
         Leaves, PatchApplies, PatchFails, PatchRecordLost
    <2> QED BY <2>2
  <1>5. CASE BeginApply \/ BeginVerify
    BY <1>2, <1>5 DEF Persists, BeginApply, BeginVerify, AdvanceStage
  <1>6. CASE FailPhase
    <2> DEFINE R == {now, FailureState}
               noted == Adding(store, {Single(FailureRoot, "failure", "failed")})
               advanced == Persisting(noted, FailureState)
               stores == <<noted, advanced, Hashing(advanced)>>
    <2>1. Writes(stores) \/ WriteFails(stores)
      BY <1>6 DEF FailPhase
    <2>2. Says(R, store)
      BY <1>0
    <2> HIDE DEF R
    <2>3. Says(R, noted)
      BY <2>2, WritesOfStates
    <2>4. FailureState \in R
      BY DEF R
    <2> HIDE DEF noted
    <2>5. Says(R, advanced)
      BY <2>3, <2>4, WritesOfStates
    <2>6. Says(R, Hashing(advanced))
      BY <2>5, WritesOfStates
    <2> HIDE DEF advanced
    <2>7. store'.run.state \in R
      BY <2>1, <2>2, <2>3, <2>5, <2>6, StateAfterThreeWrites
    <2> QED BY <1>6, <2>7 DEF R, Persists
  <1>7. ASSUME NEW s, NEW state, NEW reason, Says({now, state}, s)
        PROVE  /\ Says({now, state}, FailureRecord(s, state, reason)[1])
               /\ Says({now, state}, FailureRecord(s, state, reason)[2])
               /\ Says({now, state}, FailureRecord(s, state, reason)[3])
               /\ FailureRecord(s, state, reason) = <<FailureRecord(s, state, reason)[1],
                    FailureRecord(s, state, reason)[2], FailureRecord(s, state, reason)[3]>>
    <2> DEFINE R == {now, state}
    <2>1. Says(R, Persisting(s, state)) /\ Says(R, Recording(s, Run(state, state, reason)))
      BY <1>7, WritesOfStates
    <2>2. Says(R, Hashing(Recording(s, Run(state, state, reason))))
      BY <2>1, WritesOfStates
    <2> QED BY <2>1, <2>2 DEF FailureRecord
  <1>8. CASE PersistTerminalFailure
    <2>1. PICK reason : LET target == TerminalFailure(store.run.state, reason)
                            stores == FailureRecord(store, target, reason)
                        IN  Writes(stores) \/ WriteFails(stores)
      BY <1>8 DEF PersistTerminalFailure
    <2> DEFINE target == TerminalFailure(store.run.state, reason)
               stores == FailureRecord(store, target, reason)
    <2>2. Writes(stores) \/ WriteFails(stores)
      BY <2>1
    <2> HIDE DEF target
    <2>3. /\ Says({now, target}, stores[1]) /\ Says({now, target}, stores[2])
          /\ Says({now, target}, stores[3]) /\ stores = <<stores[1], stores[2], stores[3]>>
      BY <1>0, <1>7
    <2> HIDE DEF stores
    <2>4. store'.run.state \in {now, target}
      BY <1>0, <2>2, <2>3, StateAfterThreeWrites
    <2> QED BY <1>8, <2>4 DEF target, Persists
  <1>9. CASE WithdrawAcceptance
    <2> DEFINE state == "evidence_failure"
               R == {now, state}
    <2>1. Says(R, store) /\ Says(R, Withdrawn(store)) /\ Says(R, WithdrawnVerdict(store))
      BY <1>0, WritesOfStates
    <2>2. PICK reason : LET record == FailureRecord(Withdrawn(store), state, reason)
                        IN  \/ Writes(record)
                            \/ store' \in {store, WithdrawnVerdict(store)}
                            \/ store' \in {Withdrawn(store), record[1], record[2]}
      BY <1>9 DEF WithdrawAcceptance
    <2> DEFINE record == FailureRecord(Withdrawn(store), state, reason)
    <2>3. Says(R, record[1]) /\ Says(R, record[2]) /\ Says(R, record[3])
          /\ record = <<record[1], record[2], record[3]>>
      BY <1>7, <2>1
    <2>4. \/ Writes(record) \/ store' \in {store, WithdrawnVerdict(store)}
          \/ store' \in {Withdrawn(store), record[1], record[2]}
      BY <2>2
    <2> HIDE DEF record
    <2>5. store'.run.state \in R
      <3>1. CASE Writes(record)
        BY <1>0, <2>3, <3>1, StateAfterThreeWrites
      <3>2. CASE store' \in {Withdrawn(store), record[1], record[2]}
        BY <2>1, <2>3, <3>2 DEF Says
      <3>3. CASE store' \in {store, WithdrawnVerdict(store)}
        BY <2>1, <3>3 DEF Says
      <3> QED BY <2>4, <3>1, <3>2, <3>3
    <2> QED BY <1>9, <2>5 DEF Persists
  <1>10. CASE FinishBaseline \/ FinishUnit \/ FinishFinal \/ RejectFindings
    <2> DEFINE R == {now}
    <2>1. Says(R, store)
      BY <1>0
    <2>2. \A s : Says(R, s) => /\ \A fs : Says(R, Adding(s, fs)) /\ Says(R, Hashing(s))
                               /\ \A r : Says(R, Listing(s, r))
      BY WritesOfStates
    <2> HIDE DEF R
    <2>3. Says(R, Compared("passed")) /\ Says(R, Compared("failed"))
      BY <2>1, <2>2 DEF Compared
    <2>4. CASE FinishBaseline
      <3> DEFINE listed == Listing(store, root)
                 stores == <<listed, Hashing(listed)>>
      <3>1. Says(R, listed) /\ Says(R, Hashing(listed))
        BY <2>1, <2>2
      <3>2. Writes(stores) \/ WriteFails(stores)
        BY <2>4 DEF FinishBaseline
      <3> HIDE DEF listed
      <3>3. Len(stores) \in Nat \ {0} /\ \A j \in 1..Len(stores) : Says(R, stores[j])
        BY <3>1
      <3> HIDE DEF stores
      <3> QED BY <2>1, <3>2, <3>3, StatesAfterWrites DEF R
    <2>5. CASE FinishUnit
      <3> DEFINE listed == Listing(Compared("passed"), root)
                 stores == <<Compared("passed"), listed, Hashing(listed)>>
      <3>1. Says(R, listed) /\ Says(R, Hashing(listed))
        BY <2>2, <2>3
      <3>2. Writes(stores) \/ WriteFails(stores)
        BY <2>5 DEF FinishUnit
      <3> HIDE DEF listed
      <3>3. store'.run.state \in R
        BY <2>1, <2>3, <3>1, <3>2, StateAfterThreeWrites
      <3> QED BY <3>3 DEF R
    <2>6. CASE FinishFinal
      <3> DEFINE strict == Adding(Compared("passed"), {IntegrityOnly(step, "final-integrity")})
                 diff == Adding(strict, {Single(Final, "combined", "none")})
                 series == Adding(diff, {Single(Final, "supplied-series", "none")})
                 listed == Listing(series, Final)
                 stores == <<Compared("passed"), strict, diff, series, listed, Hashing(listed)>>
      <3>1. Says(R, strict)
        BY <2>2, <2>3
      <3>2. Says(R, diff)
        BY <2>2, <3>1
      <3>3. Says(R, series)
        BY <2>2, <3>2
      <3>4. Says(R, listed) /\ Says(R, Hashing(listed))
        BY <2>2, <3>3
      <3>5. Writes(stores) \/ WriteFails(stores)
        BY <2>6 DEF FinishFinal
      <3> HIDE DEF strict, diff, series, listed
      <3>6. Len(stores) \in Nat \ {0} /\ \A j \in 1..Len(stores) : Says(R, stores[j])
        BY <2>3, <3>1, <3>2, <3>3, <3>4
      <3> HIDE DEF stores
      <3> QED BY <2>1, <3>5, <3>6, StatesAfterWrites DEF R
    <2>7. CASE RejectFindings
      BY <2>1, <2>3, <2>7, StateAfterWrite DEF RejectFindings, R
    <2> QED BY <1>10, <2>4, <2>5, <2>6, <2>7
  <1>11. CASE FinishStage \/ EnterFinal
    <2> DEFINE R == {now, "phase_c_preapply", "final_verification"}
    <2>1. Says(R, store) /\ "phase_c_preapply" \in R /\ "final_verification" \in R
      BY <1>0
    <2>2. \A s : Says(R, s) => /\ \A fs : Says(R, Adding(s, fs)) /\ Says(R, Hashing(s))
                               /\ \A r : Says(R, Listing(s, r))
                               /\ \A state \in R : Says(R, Persisting(s, state))
      BY WritesOfStates
    <2>3. store'.run.state \in R => Persists(store'.run.state)
      BY <1>11 DEF Persists, FinishStage, EnterFinal
    <2> HIDE DEF R
    <2> DEFINE listed == Listing(Compared("passed"), root)
               further == Persisting(Hashing(listed), "phase_c_preapply")
               final == Persisting(Hashing(listed), "final_verification")
               checked == Adding(final, {IntegrityOnly(0, "initial-integrity")})
               stores == <<Compared("passed"), listed, Hashing(listed), further>>
               finals == <<Compared("passed"), listed, Hashing(listed), final, checked>>
    <2>4. Says(R, Compared("passed"))
      BY <2>1, <2>2 DEF Compared
    <2>5. Says(R, listed) /\ Says(R, Hashing(listed))
      BY <2>2, <2>4
    <2>6. Says(R, further) /\ Says(R, final)
      BY <2>1, <2>2, <2>5
    <2>7. Says(R, checked)
      BY <2>2, <2>6
    <2>8. (Writes(stores) \/ WriteFails(stores)) \/ (Writes(finals) \/ WriteFails(finals))
      BY <1>11 DEF FinishStage, EnterFinal
    <2> HIDE DEF listed, further, final, checked
    <2>9. /\ Len(stores) \in Nat \ {0} /\ \A j \in 1..Len(stores) : Says(R, stores[j])
          /\ Len(finals) \in Nat \ {0} /\ \A j \in 1..Len(finals) : Says(R, finals[j])
      BY <2>4, <2>5, <2>6, <2>7
    <2> HIDE DEF stores, finals
    <2>10. store'.run.state \in R
      BY <2>1, <2>8, <2>9, StatesAfterWrites
    <2> QED BY <2>3, <2>10
  <1>12. CASE AssembleEvidence
    <2> DEFINE R == {now, "assembling_evidence"}
    <2>1. Says(R, store) /\ "assembling_evidence" \in R
      BY <1>0
    <2>2. \A s : Says(R, s) => /\ \A fs : Says(R, Adding(s, fs)) /\ Says(R, Hashing(s))
                               /\ \A r : Says(R, Listing(s, r))
                               /\ \A state \in R : Says(R, Persisting(s, state))
      BY WritesOfStates
    <2>3. store'.run.state \in R => Persists(store'.run.state)
      BY <1>12 DEF Persists, AssembleEvidence
    <2> HIDE DEF R
    <2> DEFINE advanced == Persisting(store, "assembling_evidence")
               prepared == Adding(advanced, {Single(Final, "verdict-prep", "none")})
               listed == Listing(prepared, Final)
               stores == <<advanced, prepared, listed, Hashing(listed)>>
    <2>4. Says(R, advanced)
      BY <2>1, <2>2
    <2>5. Says(R, prepared)
      BY <2>2, <2>4
    <2>6. Says(R, listed) /\ Says(R, Hashing(listed))
      BY <2>2, <2>5
    <2>7. Writes(stores) \/ WriteFails(stores)
      BY <1>12 DEF AssembleEvidence
    <2> HIDE DEF advanced, prepared, listed
    <2>8. Len(stores) \in Nat \ {0} /\ \A j \in 1..Len(stores) : Says(R, stores[j])
      BY <2>4, <2>5, <2>6
    <2> HIDE DEF stores
    <2>9. store'.run.state \in R
      BY <2>1, <2>7, <2>8, StatesAfterWrites
    <2> QED BY <2>3, <2>9
  <1>13. CASE Cleanup
    <2>1. \A s : Says({now}, s) => Says({now}, Hashing(s)) /\ \A fs : Says({now}, Adding(s, fs))
      BY WritesOfStates
    <2>2. CASE FailWorktreeRemoval
      <3> DEFINE noted == Adding(store, {Single(IF root.phase = "b" THEN root ELSE PhaseC,
                                         "cleanup-failure", "failed")})
                 stores == <<noted, Hashing(noted)>>
      <3>1. Says({now}, noted) /\ Says({now}, Hashing(noted))
        BY <1>0, <2>1
      <3>2. Writes(stores) \/ WriteFails(stores)
        BY <2>2 DEF FailWorktreeRemoval
      <3> HIDE DEF noted
      <3>3. Len(stores) \in Nat \ {0} /\ \A j \in 1..Len(stores) : Says({now}, stores[j])
        BY <3>1
      <3> HIDE DEF stores
      <3> QED BY <1>0, <3>2, <3>3, StatesAfterWrites
    <2> QED BY <1>13, <2>2 DEF Cleanup, RemoveWorktree, Close, FailClose
  <1>14. CASE WriteVerdict \/ WriteReport \/ SealAcceptance
    <2>1. \A s : Writes(<<s>>) \/ WriteFails(<<s>>) => store' = store \/ store' = s
      BY OneWrite
    <2>2. ASSUME NEW fs PROVE Adding(store, fs).run.state = now /\ Hashing(store).run.state = now
      <3>1. Says({now}, store)
        BY <1>0
      <3>2. Says({now}, Adding(store, fs)) /\ Says({now}, Hashing(store))
        BY <3>1, WritesOfStates
      <3> QED BY <3>2 DEF Says
    <2> QED
      BY <1>14, <2>1, <2>2 DEF WriteVerdict, WriteReport, SealAcceptance, AcceptanceWrite
  <1>15. CASE PersistAccepted \/ RecordOutcome
    <2>1. \A s : Writes(<<s>>) \/ WriteFails(<<s>>) => store' = store \/ store' = s
      BY OneWrite
    <2>2. /\ Persisting(store, "accepted").run.state = "accepted"
          /\ Recording(store, AcceptedRun).run.state = "accepted"
      BY DEF TypeOK, StoreOK, Persisting, Recording, Run, AcceptedRun
    <2> QED
      BY <1>15, <2>1, <2>2 DEF Persists, PersistAccepted, RecordOutcome, AcceptanceWrite
  <1>16. CASE VerifyEvidence \/ RejectEvidence \/ Kill \/ UNCHANGED vars
    BY <1>16 DEF VerifyEvidence, RejectEvidence, Kill, vars
  <1> QED
    BY <1>1, <1>3, <1>4, <1>5, <1>6, <1>8, <1>9, <1>10, <1>11, <1>12, <1>13, <1>14, <1>15, <1>16
       DEF Next, Step, Patch, Finish, Accept, Ended


-----------------------------------------------------------------------------
(* A failure state is persisted once, when nothing but the way out is left. *)
FailuresAreLate ==
    store.run.state \in Failures =>
        pc \in {"except", "exit", "killed"} \/ (pc = "cleanup" /\ exc # NoException)

(* What persists a failure state leaves the loop, and nothing goes back to it. *)
LEMMA FailuresStayLate ==
    ASSUME TypeOK, FailuresAreLate, [Next]_vars
    PROVE  FailuresAreLate'
  <1> SUFFICES ASSUME store'.run.state \in Failures
               PROVE  \/ pc' \in {"except", "exit", "killed"}
                      \/ pc' = "cleanup" /\ exc' # NoException
    BY DEF FailuresAreLate
  <1>1. CASE store'.run.state = store.run.state
    <2>1. pc \in {"except", "exit", "killed"} \/ (pc = "cleanup" /\ exc # NoException)
      BY <1>1 DEF FailuresAreLate
    <2>2. exc' # NoException \/ exc = NoException
      BY ExceptionsStay
    <2>3. CASE Prepare
      BY <2>1, <2>3 DEF Prepare, RejectCampaign, CreateRun, QualifyRuntime, RejectRuntime,
         CaptureInputs, FailCapture, OpenBaseline, FailBaselineWorktree
    <2>4. CASE Enter
      BY <2>1, <2>4 DEF Enter, EnterPhaseA, EnterPhaseB, EnterPhaseC, OpenWorktree
    <2>5. CASE Command \/ Patch
      BY <2>1, <2>5 DEF Command, CheckPasses, CommandFails, ResultRejected, CheckRecordLost,
         Interrupt, AtCommand, Patch, PatchApplies, PatchFails, PatchRecordLost, AtPatch, BeginApply,
         BeginVerify, Running
    <2>6. CASE Finish
      BY <2>1, <2>6 DEF Finish, FinishBaseline, FinishUnit, FinishStage, EnterFinal, FinishFinal,
         RejectFindings, AssembleEvidence, Running
    <2>7. CASE FailPhase \/ PersistTerminalFailure
      BY <2>1, <2>7 DEF FailPhase, PersistTerminalFailure, Leave
    <2>8. CASE Cleanup
      BY <2>1, <2>2, <2>8
         DEF Cleanup, RemoveWorktree, FailWorktreeRemoval, After, Close, FailClose
    <2>9. CASE Accept
      BY <2>1, <2>9 DEF Accept, VerifyEvidence, RejectEvidence, WriteVerdict, WriteReport,
         PersistAccepted, RecordOutcome, SealAcceptance, AcceptanceWrite, WithdrawAcceptance
    <2>10. CASE Kill \/ UNCHANGED vars
      BY <2>1, <2>10 DEF Kill, vars
    <2> QED
      BY <2>3, <2>4, <2>5, <2>6, <2>7, <2>8, <2>9, <2>10 DEF Next, Step, Ended
  <1>2. CASE store'.run.state # store.run.state
    <2>1. \/ RejectRuntime \/ FailBaselineWorktree \/ FailCapture
          \/ WithdrawAcceptance \/ FailPhase \/ PersistTerminalFailure
      BY <1>2, StatesArePersisted DEF Persists, Failures
    <2>2. CASE FailPhase
      <3>1. exc' \notin Silent
        BY <2>2, ExceptionsAreRaised, FailedWriteIsRaised DEF FailPhase
      <3> QED BY <2>2, <3>1 DEF FailPhase, Silent
    <2> QED
      BY <2>1, <2>2 DEF RejectRuntime, FailBaselineWorktree, FailCapture, WithdrawAcceptance,
         PersistTerminalFailure, Leave
  <1> QED BY <1>1, <1>2

(* Where a failure state is on disk. *)
THEOREM FailuresInvariant == Spec => []FailuresAreLate
  <1>1. Init => FailuresAreLate
    BY DEF Init, FailuresAreLate, EmptyStore, NoRun, Failures
  <1>2. TypeOK /\ FailuresAreLate /\ [Next]_vars => FailuresAreLate'
    BY FailuresStayLate
  <1> QED BY <1>1, <1>2, TypeCorrect, PTL DEF Spec

(* A failure of the cleanup, or of the record of a failure, never replaces *)
(* the state that tells what went wrong first: _persist_terminal_failure   *)
(* keeps a failure state it finds on disk.                                 *)
THEOREM FirstFailureIsKept == Spec => FailureIsFinal
  <1>1. ASSUME TypeOK, FailuresAreLate, [Next]_vars, store.run.state \in Failures
        PROVE  store'.run.state = store.run.state
    <2> SUFFICES ASSUME store'.run.state # store.run.state PROVE FALSE
      OBVIOUS
    <2>1. Persists(store'.run.state)
      BY <1>1, StatesArePersisted
    <2>2. pc \in {"except", "exit", "killed", "cleanup"}
      BY <1>1 DEF FailuresAreLate
    <2>3. \E reason : store'.run.state = TerminalFailure(store.run.state, reason)
      BY <2>1, <2>2 DEF Persists, RejectRuntime, FailBaselineWorktree, FailCapture,
         WithdrawAcceptance, BeginApply, BeginVerify, Running, FailPhase
    <2> QED BY <1>1, <2>3 DEF TerminalFailure
  <1>2. TypeOK /\ FailuresAreLate /\ [Next]_vars
            => [store.run.state \in Failures => store'.run.state = store.run.state]_vars
    BY <1>1
  <1> QED BY <1>2, TypeCorrect, FailuresInvariant, PTL DEF Spec, FailureIsFinal


-----------------------------------------------------------------------------
(* Every transition is legal.  The caller's copy of the state goes with    *)
(* the place in the program, and in a stage with the items that have run.  *)

(* The items of a stage before the first command of the patched tree. *)
Opening(n) == Len(Vulns[Order[n]]) + Len(Patches[Order[n]])

Overlap == "unit_vulnerability_already_mitigated"
StageStates == {"phase_c_preapply", "phase_c_apply", "phase_c_verify"}

MemFollows ==
    /\ pc = "start" => mem = "created"
    /\ pc = "preflight" => mem = "preflight"
    /\ pc = "capture" => mem = "capturing_inputs"
    /\ pc \in {"open_baseline", "enter_a", "enter_b"} => mem = "phase_a_baseline"
    /\ pc = "enter_c" => mem = "phase_b_isolated"
    /\ pc = "assemble" => mem = "final_verification" /\ root.phase = "final"
    /\ pc \in AcceptPlaces \cup {"verify"} => mem = "assembling_evidence"
    /\ pc \in {"open", "run", "handler", "cleanup"} =>
          /\ root.phase = "a" => mem = "phase_a_baseline"
          /\ root.phase = "b" => mem = "phase_b_isolated"
          /\ root.phase = "c" =>
                mem \in StageStates \/ (mem = "final_verification" /\ pc \in {"handler", "cleanup"})
          /\ root.phase = "final" => mem = "final_verification"

StagesFollow ==
    /\ pc = "open" => step = 1 /\ (root.phase = "c" => mem = "phase_c_preapply")
    /\ Running("c") /\ step > Opening(root.n) + 1 => mem = "phase_c_verify"
    /\ pc = "handler" /\ exc.reason = Overlap => root.phase = "c" /\ mem = "phase_c_preapply"

(* An item of a root is one of the kinds that the root has. *)
LEMMA ItemsOfRoots ==
    ASSUME root \in Roots, step \in Nat \ {0}
    PROVE  /\ root.phase \in {"a", "b", "c", "final"}
           /\ Len(ItemsOf[root]) \in Nat
           /\ Unfinished => /\ Item.kind \in Kinds
                            /\ root.phase \in {"a", "final"} => Item.kind \in Commanded
                            /\ root.phase = "b" => Item.kind \in Commanded \cup {"patch"}
  <1> DEFINE items == ItemsOf[root]
  <1>1. /\ root.phase \in {"a", "b", "c", "final"}
        /\ root.phase \in {"a", "final"} => Are({"build", "regression", "oracle", "scanner"}, items)
        /\ root.phase = "b" => Are({"patch", "build", "regression", "oracle", "scanner"}, items)
        /\ root.phase = "c" => Are(Kinds, items)
    BY KindsOfRoots
  <1>2. Item = items[step] /\ (Unfinished <=> step <= Len(items))
    BY DEF Item, Unfinished
  <1> HIDE DEF items
  <1>3. Len(items) \in Nat
    BY <1>1 DEF Are
  <1>4. Unfinished => step \in 1..Len(items)
    BY <1>2, <1>3
  <1>5. Unfinished => /\ Item.kind \in Kinds
                      /\ root.phase \in {"a", "final"} => Item.kind \in Commanded
                      /\ root.phase = "b" => Item.kind \in Commanded \cup {"patch"}
    BY <1>1, <1>2, <1>4 DEF Are, Kinds, Commanded
  <1> QED BY <1>1, <1>3, <1>5 DEF items

(* There are a number of them. *)
LEMMA OpeningIsANumber ==
    ASSUME NEW n \in Stages
    PROVE  Opening(n) \in Nat
  <1> DEFINE v == Len(Vulns[Order[n]])
             p == Len(Patches[Order[n]])
  <1>1. v \in Nat /\ p \in Nat
    BY PatchesOfStages
  <1>2. Opening(n) = v + p
    BY DEF Opening
  <1> HIDE DEF v, p
  <1> QED BY <1>1, <1>2

(* The items of a stage, and the one that is next. *)
LEMMA ItemsOfStages ==
    ASSUME root \in Roots, step \in Nat \ {0}, root.phase = "c"
    PROVE  /\ root.n \in Stages /\ Opening(root.n) \in Nat
           /\ Len(ItemsOf[root]) \in Nat /\ Opening(root.n) < Len(ItemsOf[root])
           /\ Unfinished /\ step > Opening(root.n) => Item.kind \in Commanded
  <1>1. root.n \in Stages
    BY DEF Roots, PhaseA, Final, At
  <1>2. ItemsOf[root] = StageItems(root.n)
    BY DEF ItemsOf
  <1> DEFINE items == StageItems(root.n)
  <1>3. /\ Len(Vulns[Order[root.n]]) \in Nat /\ Len(Patches[Order[root.n]]) \in Nat
        /\ Len(items) \in Nat /\ Opening(root.n) < Len(items)
        /\ \A i \in (Opening(root.n) + 1)..Len(items) : items[i].kind \in Commanded
    BY <1>1, PatchesOfStages DEF Opening
  <1>4. Opening(root.n) \in Nat
    BY <1>1, OpeningIsANumber
  <1>5. Item = items[step] /\ (Unfinished <=> step <= Len(items))
    BY <1>2 DEF Item, Unfinished
  <1> HIDE DEF items
  <1>6. Unfinished /\ step > Opening(root.n) => step \in (Opening(root.n) + 1)..Len(items)
    BY <1>3, <1>4, <1>5
  <1>7. Unfinished /\ step > Opening(root.n) => Item.kind \in Commanded
    BY <1>3, <1>5, <1>6
  <1> QED BY <1>1, <1>2, <1>3, <1>4, <1>7 DEF items

(* Only an oracle that runs before the patches of its unit tells of an     *)
(* overlap.                                                                *)
LEMMA OverlapIsOfPreapply ==
    ASSUME TypeOK, Unfinished, Item.kind # "patch", FailureCode = Overlap
    PROVE  root.phase = "c" /\ Item.kind = "preapply"
  <1>1. /\ root.phase \in {"a", "b", "c", "final"} /\ Item.kind \in Kinds
        /\ root.phase \in {"a", "b", "final"} => Item.kind # "preapply"
    BY ItemsOfRoots DEF TypeOK, Commanded
  <1>2. Item.kind \in {"build", "regression", "oracle", "scanner", "preapply"}
    BY <1>1 DEF Kinds
  <1> QED BY <1>1, <1>2 DEF FailureCode, FailureCodes, Overlap

(* A failure of a command that tells of an overlap is that of such an      *)
(* oracle.                                                                 *)
LEMMA OverlapIsRaisedByPreapply ==
    ASSUME TypeOK, CommandFails \/ ResultRejected \/ CheckRecordLost, exc'.reason = Overlap
    PROVE  root.phase = "c" /\ Item.kind = "preapply"
  <1>1. AtCommand
    BY DEF CommandFails, ResultRejected, CheckRecordLost
  <1>2. \A reason : /\ MendRuneError(reason).reason = reason
                    /\ ConfigurationError(reason).reason = reason
    BY DEF MendRuneError, ConfigurationError, Exception
  <1>3. OtherError.reason # Overlap
    BY DEF OtherError, Exception, Overlap
  <1>4. \A e : Rethrown(e).reason = Overlap => e.reason = Overlap \/ FailureCode = Overlap
    BY <1>2 DEF Rethrown
  <1>5. \A effect, end, answer :
          /\ IntegrityError(effect).reason # Overlap
          /\ EndError(end).reason = Overlap => FailureCode = Overlap
    BY <1>2, <1>3 DEF IntegrityError, EndError, Overlap
  <1>6. \A answer \in {"vulnerable", "mitigated", "invalid"} : ResultError(answer).reason # Overlap
    BY <1>2 DEF ResultError, Overlap
  <1>7. \A e \in StoreExceptions : e.reason # Overlap
    BY <1>2, <1>3 DEF StoreExceptions, Overlap
  <1>8. FailureCode = Overlap
    <2>1. CASE CommandFails
      <3>1. PICK end, effect : exc' = Rethrown(IF effect \in Harmful THEN IntegrityError(effect)
                                               ELSE EndError(end))
        BY <2>1 DEF CommandFails
      <3> QED BY <1>4, <1>5, <3>1
    <2>2. CASE ResultRejected
      <3>1. PICK answer \in {"vulnerable", "mitigated", "invalid"} : exc' = Rethrown(ResultError(answer))
        BY <2>2 DEF ResultRejected
      <3> QED BY <1>4, <1>6, <3>1
    <2>3. CASE CheckRecordLost
      <3>1. PICK e \in StoreExceptions : exc' = Rethrown(e) \/ exc' = e
        BY <2>3 DEF CheckRecordLost
      <3> QED BY <1>4, <1>7, <3>1
    <2> QED BY <2>1, <2>2, <2>3
  <1> QED BY <1>1, <1>8, OverlapIsOfPreapply DEF AtCommand

(* No failed write tells of an overlap. *)
LEMMA OverlapIsNoFailedWrite ==
    ASSUME NEW stores, WriteFails(stores)
    PROVE  exc'.reason # Overlap
  BY DEF WriteFails, LosesOneOf, MeetsLink, StoreExceptions, MendRuneError, OtherError, Exception,
     Overlap


(* The caller's copy goes with the place. *)
LEMMA MemFollowsStep ==
    ASSUME TypeOK, WorktreesFollow, MemFollows, [Next]_vars
    PROVE  MemFollows'
  <1>0. root.phase \in {"a", "b", "c", "final"} /\ PhaseA.phase = "a" /\ Final.phase = "final"
        /\ \A n : At("b", n).phase = "b" /\ At("c", n).phase = "c"
    BY PhaseBIsNotC, ItemsOfRoots DEF TypeOK
  <1> USE DEF MemFollows, AcceptPlaces, StageStates
  <1>1. CASE Prepare
    BY <1>1 DEF Prepare, RejectCampaign, CreateRun, QualifyRuntime, RejectRuntime, CaptureInputs,
       FailCapture, OpenBaseline, FailBaselineWorktree, Leave
  <1>2. CASE Enter
    BY <1>0, <1>2 DEF Enter, EnterPhaseA, EnterPhaseB, EnterPhaseC, OpenWorktree, Start
  <1>3. CASE Command
    BY <1>3 DEF Command, CheckPasses, CommandFails, ResultRejected, CheckRecordLost, Interrupt,
       AtCommand, commandVars
  <1>4. CASE Patch
    BY <1>4 DEF Patch, PatchApplies, PatchFails, PatchRecordLost, AtPatch, BeginApply, BeginVerify,
       AdvanceStage, Running, commandVars
  <1>5. CASE Finish
    BY <1>0, <1>5 DEF Finish, FinishBaseline, FinishUnit, FinishStage, EnterFinal, FinishFinal,
       RejectFindings, AssembleEvidence, Running
  <1>6. CASE FailPhase \/ PersistTerminalFailure
    BY <1>6 DEF FailPhase, PersistTerminalFailure, Leave
  <1>7. CASE RemoveWorktree \/ FailWorktreeRemoval
    <2>1. /\ pc = "cleanup" /\ pc' = After(exc') /\ NextUnit /\ mem' = mem
      BY <1>7 DEF RemoveWorktree, FailWorktreeRemoval
    <2>2. /\ pc' \in {"open", "enter_c", "close", "exit", "except"}
          /\ pc' \in {"open", "enter_c"} => root.phase = "b"
      BY <2>1 DEF After
    <2>3. pc' = "open" => root'.phase = "b"
      BY <1>0, <2>1 DEF NextUnit, Start
    <2> QED BY <2>1, <2>2, <2>3
  <1>8. CASE Close \/ FailClose
    BY <1>8 DEF Close, FailClose
  <1>9. CASE Accept
    BY <1>9 DEF Accept, VerifyEvidence, RejectEvidence, WriteVerdict, WriteReport, PersistAccepted,
       RecordOutcome, SealAcceptance, AcceptanceWrite, WithdrawAcceptance, acceptVars
  <1>10. CASE Kill \/ UNCHANGED vars
    BY <1>10 DEF Kill, vars, acceptVars
  <1> QED
    BY <1>1, <1>2, <1>3, <1>4, <1>5, <1>6, <1>7, <1>8, <1>9, <1>10
       DEF Next, Step, Cleanup, Ended

(* And in a stage with the items that have run: commands after the patches *)
(* run in phase_c_verify, and an overlap is found before any patch.        *)
LEMMA StagesFollowStep ==
    ASSUME TypeOK, MemFollows, StagesFollow, [Next]_vars
    PROVE  StagesFollow'
  <1>0. /\ root \in Roots /\ step \in Nat \ {0}
        /\ root.phase = "c" => root.n \in Stages /\ Opening(root.n) \in Nat
    BY ItemsOfStages DEF TypeOK
  <1>1. /\ \A n : At("b", n).phase = "b" /\ At("c", n).phase = "c" /\ At("c", n).n = n
        /\ PhaseA.phase = "a" /\ Final.phase = "final"
    BY DEF At, PhaseA, Final
  <1>2. \A n \in Stages : Opening(n) \in Nat
    BY OpeningIsANumber
  <1>3. \A reason : /\ MendRuneError(reason).reason = reason
                    /\ ConfigurationError(reason).reason = reason
    BY DEF MendRuneError, ConfigurationError, Exception
  <1> USE DEF StagesFollow
  <1>4. CASE pc' \notin {"open", "run", "handler"}
    BY <1>4 DEF Running
  <1>5. CASE OpenWorktree
    <2>1. /\ pc = "open" /\ UNCHANGED <<root, step, mem>>
          /\ pc' = "run" \/ (pc' = "handler" /\ exc' = ConfigurationError("worktree_invalid"))
      BY <1>5 DEF OpenWorktree
    <2>2. root.phase = "c" => ~(step > Opening(root.n) + 1)
      BY <1>0, <2>1
    <2> QED BY <1>3, <2>1, <2>2 DEF Running, Overlap
  <1>6. CASE EnterPhaseA \/ EnterPhaseB \/ EnterPhaseC
    BY <1>1, <1>6 DEF EnterPhaseA, EnterPhaseB, EnterPhaseC, Start, Running
  <1>7. CASE CheckPasses
    <2>1. /\ AtCommand /\ UNCHANGED <<pc, root, mem>> /\ step' = step + 1 /\ pc = "run"
      BY <1>7 DEF CheckPasses, AtCommand, commandVars
    <2>2. ASSUME root.phase = "c", step + 1 > Opening(root.n) + 1
          PROVE  mem = "phase_c_verify"
      <3>1. step > Opening(root.n)
        BY <1>0, <2>2
      <3>2. Item.kind \in Commanded
        BY <1>0, <2>1, <2>2, <3>1, ItemsOfStages DEF AtCommand
      <3> QED BY <2>1, <2>2, <3>2 DEF AtCommand, Commanded
    <2> QED BY <2>1, <2>2 DEF Running
  <1>8. CASE CommandFails \/ ResultRejected \/ CheckRecordLost
    <2>1. AtCommand /\ UNCHANGED <<root, mem>> /\ pc' = "handler"
      BY <1>8 DEF CommandFails, ResultRejected, CheckRecordLost, commandVars
    <2>2. exc'.reason = Overlap => root.phase = "c" /\ Item.kind = "preapply"
      BY <1>8, OverlapIsRaisedByPreapply
    <2> QED BY <2>1, <2>2 DEF AtCommand, Running
  <1>9. CASE PatchApplies
    <2>1. /\ AtPatch /\ UNCHANGED <<pc, root, mem>> /\ step' = step + 1 /\ pc = "run"
      BY <1>9 DEF PatchApplies, AtPatch, commandVars
    <2>2. root.phase = "c" => ~(step + 1 > Opening(root.n) + 1)
      BY <1>0, <2>1, ItemsOfStages DEF AtPatch, Commanded
    <2> QED BY <2>1, <2>2 DEF Running
  <1>10. CASE PatchFails \/ PatchRecordLost
    <2>1. pc' = "handler" /\ exc'.reason # Overlap
      BY <1>3, <1>10 DEF PatchFails, PatchRecordLost, StoreExceptions, OtherError, Exception, Overlap
    <2> QED BY <2>1 DEF Running
  <1>11. CASE BeginApply \/ BeginVerify
    <2>1. PICK target, stores :
            /\ Running("c") /\ Unfinished /\ UNCHANGED <<root, step>>
            /\ \/ mem' = target /\ UNCHANGED <<pc, exc>>
               \/ WriteFails(stores) /\ pc' = "handler"
            /\ \/ Item.kind = "patch" /\ target = "phase_c_apply"
               \/ Item.kind = "build" /\ target = "phase_c_verify"
      BY <1>11 DEF BeginApply, BeginVerify, AdvanceStage
    <2>2. CASE mem' = target /\ UNCHANGED <<pc, exc>>
      <3>1. step > Opening(root.n) => Item.kind # "patch"
        BY <1>0, <2>1, ItemsOfStages DEF Running, Commanded
      <3>2. step > Opening(root.n) + 1 => step > Opening(root.n)
        BY <1>0, <2>1 DEF Running
      <3> QED BY <2>1, <2>2, <3>1, <3>2 DEF Running
    <2>3. CASE WriteFails(stores) /\ pc' = "handler"
      BY <2>3, OverlapIsNoFailedWrite DEF Running
    <2> QED BY <2>1, <2>2, <2>3
  <1>12. CASE FinishBaseline \/ FinishUnit \/ FinishFinal \/ AssembleEvidence
    <2>1. pc' # "handler" \/ exc'.reason # Overlap
      BY <1>12, OverlapIsNoFailedWrite
         DEF FinishBaseline, FinishUnit, FinishFinal, AssembleEvidence
    <2> QED
      BY <1>12, <2>1 DEF FinishBaseline, FinishUnit, FinishFinal, AssembleEvidence, Running
  <1>13. CASE RejectFindings
    <2>1. pc' = "handler" /\ exc'.reason # Overlap
      BY <1>3, <1>13, OverlapIsNoFailedWrite DEF RejectFindings, Overlap
    <2> QED BY <2>1 DEF Running
  <1>14. CASE FinishStage
    <2>1. \/ step' = 1 /\ UNCHANGED pc /\ root' = At("c", root.n + 1) /\ pc = "run"
          \/ pc' = "handler" /\ exc'.reason # Overlap
      BY <1>14, OverlapIsNoFailedWrite DEF FinishStage, Running
    <2>2. CASE pc' = "handler" /\ exc'.reason # Overlap
      BY <2>2 DEF Running
    <2>3. CASE step' = 1 /\ UNCHANGED pc /\ root' = At("c", root.n + 1) /\ pc = "run"
      <3>1. root.phase = "c" /\ root.n < Len(Order)
        BY <1>14 DEF FinishStage, Running
      <3>2. root.n + 1 \in Stages
        BY <1>0, <3>1, UnitsAreUnits DEF Stages
      <3>3. root'.n = root.n + 1 /\ Opening(root.n + 1) \in Nat
        BY <1>1, <1>2, <2>3, <3>2
      <3>4. ~(step' > Opening(root'.n) + 1)
        BY <2>3, <3>3
      <3> QED BY <2>3, <3>4 DEF Running
    <2> QED BY <2>1, <2>2, <2>3
  <1>15. CASE EnterFinal
    <2>1. \/ root' = Final /\ UNCHANGED pc /\ pc = "run"
          \/ pc' = "handler" /\ exc'.reason # Overlap
      BY <1>15, OverlapIsNoFailedWrite DEF EnterFinal, Running
    <2> QED BY <1>1, <2>1 DEF Running
  <1>16. CASE RemoveWorktree \/ FailWorktreeRemoval
    <2>1. pc' = After(exc') /\ NextUnit
      BY <1>16 DEF RemoveWorktree, FailWorktreeRemoval
    <2>2. pc' # "run" /\ pc' # "handler"
      BY <2>1 DEF After
    <2>3. pc' = "open" => step' = 1 /\ root'.phase = "b"
      BY <1>1, <2>1 DEF NextUnit, Start
    <2> QED BY <2>2, <2>3 DEF Running
  <1>17. CASE UNCHANGED vars
    BY <1>17 DEF vars, Running
  <1>18. CASE Close
    <2>1. pc' \in {"verify", "except"}
      BY <1>18 DEF Close
    <2> QED BY <1>4, <2>1
  <1>19. CASE \/ Prepare \/ Interrupt \/ FailPhase \/ FailClose \/ PersistTerminalFailure
              \/ Accept \/ Kill
    <2>1. pc' \notin {"open", "run", "handler"}
      BY <1>19 DEF Prepare, RejectCampaign, CreateRun, QualifyRuntime, RejectRuntime, CaptureInputs,
         FailCapture, OpenBaseline, FailBaselineWorktree, Interrupt, FailPhase, FailClose,
         PersistTerminalFailure, Leave, Accept, VerifyEvidence, RejectEvidence, WriteVerdict,
         WriteReport, PersistAccepted, RecordOutcome, SealAcceptance, AcceptanceWrite,
         WithdrawAcceptance, Kill
    <2> QED BY <1>4, <2>1
  <1> QED
    BY <1>5, <1>6, <1>7, <1>8, <1>9, <1>10, <1>11, <1>12, <1>13, <1>14, <1>15, <1>16, <1>17, <1>18,
       <1>19
       DEF Next, Step, Enter, Command, Patch, Finish, Cleanup, Ended

(* Where the program is in its state machine. *)
THEOREM StatesInvariant == Spec => [](MemFollows /\ StagesFollow)
  <1>1. Init => MemFollows /\ StagesFollow
    BY DEF Init, MemFollows, StagesFollow, AcceptPlaces, Running
  <1>2. TypeOK /\ (ExceptionsFollow /\ WorktreesFollow) /\ (MemFollows /\ StagesFollow)
            /\ [Next]_vars => (MemFollows /\ StagesFollow)'
    BY MemFollowsStep, StagesFollowStep
  <1> QED BY <1>1, <1>2, TypeCorrect, PlacesInvariant, PTL DEF Spec

(* What is persisted is a legal successor of the caller's copy. *)
LEMMA AdvancesToSuccessors ==
    ASSUME TypeOK, MemFollows, StagesFollow, [Next]_vars, store'.run.state # store.run.state,
           pc \notin {"start", "except", "withdraw"}
    PROVE  Legal(mem, store'.run.state)
  <1> DEFINE state == store'.run.state
  <1>1. Persists(state)
    BY StatesArePersisted
  <1>2. root.phase \in {"a", "b", "c", "final"}
    BY ItemsOfRoots DEF TypeOK
  <1>3. Running("c") /\ ~Unfinished => mem = "phase_c_verify"
    <2>1. SUFFICES ASSUME Running("c"), ~Unfinished PROVE step > Opening(root.n) + 1
      BY DEF StagesFollow
    <2>2. /\ Opening(root.n) \in Nat /\ Len(ItemsOf[root]) \in Nat
          /\ Opening(root.n) < Len(ItemsOf[root]) /\ step \in Nat
      BY <2>1, ItemsOfStages DEF TypeOK, Running
    <2>3. ~(step <= Len(ItemsOf[root]))
      BY <2>1 DEF Unfinished
    <2> QED BY <2>2, <2>3
  <1> HIDE DEF state
  <1>4. \A current \in ActiveStates : current \notin TerminalStates
    BY DEF ActiveStates, TerminalStates, Failures
  <1>5. CASE FailPhase /\ state = FailureState
    <2>1. pc = "handler"
      BY <1>5 DEF FailPhase
    <2>2. /\ root.phase = "a" => mem = "phase_a_baseline"
          /\ root.phase = "b" => mem = "phase_b_isolated"
          /\ root.phase = "c" => mem \in StageStates \cup {"final_verification"}
          /\ root.phase = "final" => mem = "final_verification"
          /\ exc.reason = Overlap => root.phase = "c" /\ mem = "phase_c_preapply"
      BY <2>1 DEF MemFollows, StagesFollow
    <2>3. \/ mem = "phase_a_baseline" /\ state = "baseline_failure"
          \/ mem = "phase_b_isolated" /\ state = "isolated_unit_failure"
          \/ mem = "phase_c_preapply" /\ state = "ambiguous_overlap"
          \/ mem \in StageStates \cup {"final_verification"} /\ state = "cumulative_failure"
      BY <1>2, <1>5, <2>2 DEF FailureState, Overlap
    <2> QED BY <1>4, <2>3 DEF state, Legal, Allowed, ActiveStates, StageStates
  <1>6. CASE ~FailPhase
    <2>1. \/ mem = "preflight" /\ state \in {"capturing_inputs", "infrastructure_error"}
          \/ mem = "capturing_inputs" /\ state \in {"phase_a_baseline", "evidence_failure"}
          \/ mem = "phase_a_baseline" /\ state \in {"infrastructure_error", "phase_b_isolated"}
          \/ mem = "phase_b_isolated" /\ state = "phase_c_preapply"
          \/ mem = "phase_c_preapply" /\ state = "phase_c_apply"
          \/ mem = "phase_c_apply" /\ state = "phase_c_verify"
          \/ mem = "phase_c_verify" /\ state \in {"phase_c_preapply", "final_verification"}
          \/ mem = "final_verification" /\ state = "assembling_evidence"
          \/ mem = "assembling_evidence" /\ state = "accepted"
      BY <1>1, <1>3, <1>6 DEF Persists, MemFollows, RejectRuntime, FailBaselineWorktree, FailCapture,
         WithdrawAcceptance, PersistTerminalFailure, BeginApply, BeginVerify, AcceptPlaces
    <2> QED BY <1>4, <2>1 DEF state, Legal, Allowed, ActiveStates
  <1>7. FailPhase => state = FailureState
    BY <1>1 DEF Persists, FailPhase, RejectRuntime, FailBaselineWorktree, FailCapture,
       WithdrawAcceptance, PersistTerminalFailure, BeginApply, BeginVerify, Running
  <1> QED BY <1>5, <1>6, <1>7

(* transition never raises: every _advance goes to a legal successor of    *)
(* the state the caller holds, whatever fails and whatever is raised.      *)
THEOREM EveryAdvanceIsLegal == Spec => AdvancesAreLegal
  <1>1. TypeOK /\ (MemFollows /\ StagesFollow) /\ [Next]_vars
            => [pc \notin {"start", "except", "withdraw"} /\ store'.run.state # store.run.state
                    => Legal(mem, store'.run.state)]_vars
    BY AdvancesToSuccessors
  <1> QED BY <1>1, TypeCorrect, StatesInvariant, PTL DEF Spec, AdvancesAreLegal


-----------------------------------------------------------------------------
(* The campaign implements Acceptance, step by step. *)

(* One patch or command is executed at a time, within a phase. *)
LEMMA OneCheckAtATime ==
    ASSUME [Next]_vars
    PROVE  \/ UNCHANGED ran
           \/ /\ pc = "run" /\ pc' \in {"run", "handler"}
              /\ \E c : ran' = ran \cup {c}
  <1>1. \A end, answer : Logged(end, answer) => \E c : ran' = ran \cup {c}
    BY DEF Logged
  <1>2. CASE CheckPasses \/ CommandFails \/ ResultRejected \/ CheckRecordLost \/ PatchApplies
    BY <1>1, <1>2 DEF CheckPasses, CommandFails, ResultRejected, CheckRecordLost, PatchApplies,
       AtCommand, AtPatch
  <1>3. CASE Prepare
    BY <1>3 DEF Prepare, RejectCampaign, CreateRun, QualifyRuntime, RejectRuntime, CaptureInputs,
       FailCapture, OpenBaseline, FailBaselineWorktree, inputVars
  <1>4. CASE Enter \/ Interrupt
    BY <1>4 DEF Enter, EnterPhaseA, EnterPhaseB, EnterPhaseC, OpenWorktree, Interrupt
  <1>5. CASE PatchFails \/ PatchRecordLost \/ BeginApply \/ BeginVerify
    BY <1>5 DEF PatchFails, PatchRecordLost, BeginApply, BeginVerify, AdvanceStage
  <1>6. CASE Finish
    BY <1>6 DEF Finish, FinishBaseline, FinishUnit, FinishStage, EnterFinal, FinishFinal,
       RejectFindings, AssembleEvidence, finishVars
  <1>7. CASE FailPhase \/ PersistTerminalFailure
    BY <1>7 DEF FailPhase, PersistTerminalFailure, finishVars
  <1>8. CASE Cleanup
    BY <1>8 DEF Cleanup, RemoveWorktree, FailWorktreeRemoval, Close, FailClose
  <1>9. CASE Accept \/ Kill
    BY <1>9 DEF Accept, VerifyEvidence, RejectEvidence, WriteVerdict, WriteReport, PersistAccepted,
       RecordOutcome, SealAcceptance, AcceptanceWrite, WithdrawAcceptance, Kill, acceptVars
  <1>10. CASE UNCHANGED vars
    BY <1>10 DEF vars
  <1> QED
    BY <1>2, <1>3, <1>4, <1>5, <1>6, <1>7, <1>8, <1>9, <1>10
       DEF Next, Step, Command, Patch, Ended

(* A check that is executed performs at most that one. *)
LEMMA OneCheckIsPerformed ==
    ASSUME NEW c, ran' = ran \cup {c}
    PROVE  PassedChecks' = PassedChecks \/ PassedChecks' = PassedChecks \cup {CheckOf(c)}
  <1>1. \A f : f \in PassedChecks <=> \E d \in ran : Passed(d) /\ f = CheckOf(d)
    BY DEF PassedChecks
  <1>2. \A f : f \in PassedChecks' <=> \E d \in ran' : Passed(d) /\ f = CheckOf(d)
    BY DEF PassedChecks
  <1>3. CASE Passed(c)
    <2>1. ASSUME NEW f PROVE f \in PassedChecks' <=> f \in PassedChecks \cup {CheckOf(c)}
      BY <1>1, <1>2, <1>3
    <2> QED BY <2>1
  <1>4. CASE ~Passed(c)
    <2>1. ASSUME NEW f PROVE f \in PassedChecks' <=> f \in PassedChecks
      BY <1>1, <1>2, <1>4
    <2> QED BY <2>1
  <1> QED BY <1>3, <1>4

(* The caller's answer, before and after it is given. *)
LEMMA AnswersOfPlaces ==
    /\ pc \notin {"exit", "killed"} => AnswerToCaller = "pending"
    /\ pc \in {"exit", "killed"} => AnswerToCaller \in {"accepted", "rejected", "abandoned"}
    /\ AnswerToCaller = "accepted" => pc = "exit" /\ exc = NoException
  BY DEF AnswerToCaller, Succeeded, Failed, Returned

(* The answer after a step. *)
LEMMA AnswersOfNextPlaces ==
    /\ pc' \notin {"exit", "killed"} => AnswerToCaller' = "pending"
    /\ pc' \in {"exit", "killed"} => AnswerToCaller' \in {"accepted", "rejected", "abandoned"}
    /\ AnswerToCaller' = "accepted" => pc' = "exit" /\ exc' = NoException
  BY DEF AnswerToCaller, Succeeded, Failed, Returned

(* Every step of the campaign is one of Acceptance, or none. *)
LEMMA StepsKeepPromise ==
    ASSUME TypeOK, ExceptionsFollow, EarnedInv, [Next]_vars
    PROVE  [Promise!Next]_(Promise!vars)
  <1> DEFINE performed == RequiredChecks \cap PassedChecks
  <1>0. RequiredChecks' = RequiredChecks
    OBVIOUS
  <1>1. CASE UNCHANGED vars
    BY <1>1 DEF vars, Promise!vars, AnswerToCaller, Succeeded, Failed, Returned, PassedChecks
  <1>2. CASE UNCHANGED ran /\ ~UNCHANGED vars
    <2>1. performed' = performed
      BY <1>2 DEF PassedChecks
    <2>2. pc \notin {"exit", "killed"}
      BY <1>2, StepsOfAcceptance DEF WriteVerdict, WriteReport, PersistAccepted, RecordOutcome,
         SealAcceptance, AcceptanceWrite, WithdrawAcceptance, Kill
    <2>3. AnswerToCaller = "pending"
      BY <2>2, AnswersOfPlaces
    <2>4. CASE AnswerToCaller' = "accepted"
      <3>1. SealAcceptance
        BY <1>2, <2>4, AnswersOfNextPlaces, WayToSuccess
      <3>2. performed = RequiredChecks
        BY <3>1 DEF SealAcceptance, AcceptanceWrite, EarnedInv, EarnedOnTheWay, AcceptPlaces
      <3> QED BY <2>1, <2>3, <2>4, <3>2 DEF Promise!Next, Promise!Accept
    <2>5. CASE AnswerToCaller' \in {"rejected", "abandoned"}
      BY <2>1, <2>3, <2>5 DEF Promise!Next, Promise!Refuse
    <2>6. CASE AnswerToCaller' = "pending"
      BY <2>1, <2>3, <2>6 DEF Promise!vars
    <2> QED BY <2>4, <2>5, <2>6, AnswersOfNextPlaces
  <1>3. CASE pc = "run" /\ pc' \in {"run", "handler"} /\ \E c : ran' = ran \cup {c}
    <2>1. AnswerToCaller = "pending" /\ AnswerToCaller' = "pending"
      BY <1>3, AnswersOfPlaces, AnswersOfNextPlaces
    <2>2. PICK c : PassedChecks' = PassedChecks \/ PassedChecks' = PassedChecks \cup {CheckOf(c)}
      BY <1>3, OneCheckIsPerformed
    <2>3. \/ performed' = performed
          \/ CheckOf(c) \in RequiredChecks \ performed /\ performed' = performed \cup {CheckOf(c)}
      BY <1>0, <2>2
    <2> QED BY <2>1, <2>3 DEF Promise!Next, Promise!Perform, Promise!vars
  <1> QED BY <1>1, <1>2, <1>3, OneCheckAtATime

(* The campaign implements Acceptance: it starts having performed nothing  *)
(* and answered nothing, and each step performs one required check, gives  *)
(* the answer, accepted only when all were performed, or is not seen.      *)
(* That it answers at all is liveness and is model-checked.                *)
THEOREM CampaignKeepsPromise == Spec => Promise!Init /\ [][Promise!Next]_(Promise!vars)
  <1>1. Init => Promise!Init
    BY DEF Init, Promise!Init, PassedChecks, AnswerToCaller, Succeeded, Failed, Returned
  <1>2. TypeOK /\ (ExceptionsFollow /\ WorktreesFollow) /\ EarnedInv /\ [Next]_vars
            => [Promise!Next]_(Promise!vars)
    BY StepsKeepPromise
  <1> QED BY <1>1, <1>2, TypeCorrect, PlacesInvariant, EarnedInvariant, PTL DEF Spec


=============================================================================
