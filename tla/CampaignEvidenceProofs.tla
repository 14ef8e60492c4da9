----------------------- MODULE CampaignEvidenceProofs -----------------------
(***************************************************************************)
(* What the commands of a campaign run on and what is recorded of them,    *)
(* for every campaign and every failure: each check runs in the tree that  *)
(* its phase is about, an overlap is looked for before the patches that    *)
(* may hide it, the combined diff of an accepted run is the composition    *)
(* that was verified, and evidence is refused only when a record or a      *)
(* worktree was lost.                                                      *)
(***************************************************************************)
EXTENDS CampaignOutcomeProofs

-----------------------------------------------------------------------------
(* The patches of one unit, as they are recorded in a tree. *)
Own(n) == [i \in 1..Len(Patches[Order[n]]) |-> <<Order[n], Patches[Order[n]][i]>>]

Applications == Units \X Ids

(* They are a sequence, as long as the list of the unit's patches. *)
LEMMA OwnPatches ==
    ASSUME NEW n \in Stages
    PROVE  /\ Own(n) \in Seq(Applications)
           /\ Len(Own(n)) = Len(Patches[Order[n]]) /\ Len(Patches[Order[n]]) \in Nat
           /\ \A i \in 1..Len(Own(n)) : Own(n)[i] = <<Order[n], Patches[Order[n]][i]>>
  <1> DEFINE ids == Patches[Order[n]]
  <1>1. Order[n] \in Units
    BY UnitsAreUnits
  <1>2. ids \in Seq(Ids)
    BY <1>1, IdsAreIds
  <1> HIDE DEF ids
  <1>3. Len(ids) \in Nat /\ \A i \in 1..Len(ids) : ids[i] \in Ids
    BY <1>2
  <1>4. \A i \in 1..Len(ids) : <<Order[n], ids[i]>> \in Applications
    BY <1>1, <1>3 DEF Applications
  <1>5. Own(n) = [i \in 1..Len(ids) |-> <<Order[n], ids[i]>>]
    BY DEF Own, ids
  <1> HIDE DEF Applications
  <1>6. Own(n) \in Seq(Applications) /\ Len(Own(n)) = Len(ids)
    BY <1>3, <1>4, <1>5
  <1> QED BY <1>3, <1>5, <1>6 DEF ids

(* The patches of several units, before they are put one after the other. *)
PatchLists(us) ==
    [j \in 1..Len(us) |-> [i \in 1..Len(Patches[us[j]]) |-> <<us[j], Patches[us[j]][i]>>]]

(* They are sequences too. *)
LEMMA PatchListsAreLists ==
    ASSUME NEW us \in Seq(Units)
    PROVE  /\ PatchLists(us) \in Seq(Seq(Applications)) /\ Len(PatchLists(us)) = Len(us)
           /\ PatchesOf(us) = FlattenSeq(PatchLists(us))
           /\ PatchesOf(us) \in Seq(Applications)
           /\ Len(us) = 0 => PatchesOf(us) = <<>>
  <1>1. ASSUME NEW u \in Units
        PROVE  [i \in 1..Len(Patches[u]) |-> <<u, Patches[u][i]>>] \in Seq(Applications)
    <2> DEFINE ids == Patches[u]
    <2>1. ids \in Seq(Ids)
      BY IdsAreIds
    <2> HIDE DEF ids
    <2>2. Len(ids) \in Nat /\ \A i \in 1..Len(ids) : <<u, ids[i]>> \in Applications
      BY <2>1 DEF Applications
    <2> HIDE DEF Applications
    <2>3. [i \in 1..Len(ids) |-> <<u, ids[i]>>] \in Seq(Applications)
      BY <2>2
    <2> QED BY <2>3 DEF ids
  <1>2. \A j \in 1..Len(us) :
          [i \in 1..Len(Patches[us[j]]) |-> <<us[j], Patches[us[j]][i]>>] \in Seq(Applications)
    BY <1>1
  <1>3. PatchLists(us) \in Seq(Seq(Applications)) /\ Len(PatchLists(us)) = Len(us)
    BY <1>2 DEF PatchLists
  <1>4. PatchesOf(us) = FlattenSeq(PatchLists(us))
    BY DEF PatchesOf, PatchLists
  <1> HIDE DEF Applications
  <1>5. /\ FlattenSeq(PatchLists(us)) \in Seq(Applications)
        /\ Len(PatchLists(us)) = 0 => FlattenSeq(PatchLists(us)) = <<>>
    BY <1>3, FlatteningIsASequence
  <1> QED BY <1>3, <1>4, <1>5

(* One unit more is applied after those before it. *)
LEMMA OneUnitMore ==
    ASSUME NEW n \in Stages
    PROVE  /\ PatchesOf(Applied(n)) = PatchesOf(Applied(n - 1)) \o Own(n)
           /\ PatchesOf(Applied(n - 1)) \in Seq(Applications)
           /\ PatchesOf(<<Order[n]>>) = Own(n)
  <1>1. /\ n \in 0..Len(Order) /\ n - 1 \in 0..Len(Order) /\ n \in Nat /\ n - 1 \in Nat
        /\ (n - 1) + 1 = n /\ Order[n] \in Units
    BY UnitsAreUnits DEF Stages
  <1>2. /\ Applied(n) \in Seq(Units) /\ Len(Applied(n)) = n
        /\ Applied(n - 1) \in Seq(Units) /\ Len(Applied(n - 1)) = n - 1
        /\ \A i \in 1..n : Applied(n)[i] = Order[i]
        /\ \A i \in 1..(n - 1) : Applied(n - 1)[i] = Order[i]
    BY <1>1, UnitsAreUnits
  <1>3. PatchesOf(Applied(n)) = PatchesOf(Applied(n - 1)) \o Own(n)
    <2> DEFINE before == Applied(n - 1)
               after == Applied(n)
               s == PatchLists(before)
               t == PatchLists(after)
    <2>1. /\ before \in Seq(Units) /\ Len(before) = n - 1 /\ after \in Seq(Units) /\ Len(after) = n
          /\ after[n] = Order[n] /\ \A i \in 1..(n - 1) : before[i] = after[i]
      BY <1>1, <1>2
    <2> HIDE DEF before, after
    <2>2. /\ s \in Seq(Seq(Applications)) /\ Len(s) = n - 1
          /\ t \in Seq(Seq(Applications)) /\ Len(t) = (n - 1) + 1
          /\ PatchesOf(before) = FlattenSeq(s) /\ PatchesOf(after) = FlattenSeq(t)
      BY <1>1, <2>1, PatchListsAreLists
    <2>3. \A i \in 1..(n - 1) : s[i] = t[i]
      <3>1. \A i \in 1..(n - 1) : i \in 1..Len(before) /\ i \in 1..Len(after)
        BY <1>1, <2>1
      <3> QED BY <2>1, <3>1 DEF PatchLists
    <2>4. t[(n - 1) + 1] = Own(n)
      <3>1. (n - 1) + 1 = n /\ n \in 1..Len(after)
        BY <1>1, <2>1
      <3> QED BY <2>1, <3>1 DEF PatchLists, Own
    <2> HIDE DEF s, t
    <2>5. FlattenSeq(t) = FlattenSeq(s) \o t[(n - 1) + 1]
      BY <1>1, <2>2, <2>3, FlatteningOneMore
    <2> QED BY <2>2, <2>4, <2>5 DEF before, after
  <1>4. PatchesOf(<<Order[n]>>) = Own(n)
    <2> DEFINE one == <<Order[n]>>
               none == <<>>
               t == PatchLists(one)
               n0 == Len(none)
    <2>1. one \in Seq(Units) /\ Len(one) = 1 /\ one[1] = Order[n]
      BY <1>1
    <2> HIDE DEF one
    <2>2. t \in Seq(Seq(Applications)) /\ Len(t) = 0 + 1 /\ PatchesOf(one) = FlattenSeq(t)
      BY <2>1, PatchListsAreLists
    <2>3. t[0 + 1] = Own(n)
      BY <2>1 DEF PatchLists, Own
    <2> HIDE DEF t
    <2>4. none \in Seq(Seq(Applications)) /\ n0 = 0 /\ \A i \in 1..n0 : none[i] = t[i]
      OBVIOUS
    <2>5. Len(none) = n0 /\ n0 \in Nat /\ Len(t) = n0 + 1 /\ t[n0 + 1] = Own(n)
      BY <2>2, <2>3, <2>4
    <2> HIDE DEF none, n0
    <2>6. FlattenSeq(t) = FlattenSeq(none) \o t[n0 + 1]
      BY <2>2, <2>4, <2>5, FlatteningOneMore
    <2>7. FlattenSeq(none) = <<>>
      BY <2>4, <2>5, FlatteningIsASequence DEF none
    <2>8. <<>> \o Own(n) = Own(n)
      BY OwnPatches
    <2> QED BY <2>2, <2>5, <2>8, <2>6, <2>7 DEF one
  <1> QED BY <1>2, <1>3, <1>4, PatchListsAreLists

-----------------------------------------------------------------------------
(* The tree that a root is verified in, once its first items have run. *)

(* The first patches of a unit, one more and all of them. *)
LEMMA UnitPatchesGrow ==
    ASSUME NEW n \in Stages
    PROVE  /\ \A k \in Nat : UnitPatches(n, k) \in Seq(Applications)
           /\ UnitPatches(n, 0) = <<>>
           /\ \A k \in Nat : k >= Len(Own(n)) => UnitPatches(n, k) = Own(n)
           /\ \A k \in 1..Len(Own(n)) :
                UnitPatches(n, k) = Append(UnitPatches(n, k - 1), Own(n)[k])
  <1> DEFINE own == Own(n)
  <1>1. /\ own \in Seq(Applications) /\ Len(own) = Len(Patches[Order[n]]) /\ Len(own) \in Nat
        /\ PatchesOf(<<Order[n]>>) = own
    BY OwnPatches, OneUnitMore
  <1>2. \A k : UnitPatches(n, k) = SubSeq(own, 1, IF k < Len(own) THEN k ELSE Len(own))
    BY <1>1 DEF UnitPatches
  <1> HIDE DEF own
  <1>3. SubSeq(own, 1, Len(own)) = own
    BY <1>1, SubSeqFull
  <1>4. ASSUME NEW k \in Nat, k >= Len(own) PROVE UnitPatches(n, k) = own
    <2>1. ~(k < Len(own))
      BY <1>1, <1>4
    <2> QED BY <1>2, <1>3, <2>1
  <1>5. UnitPatches(n, 0) = <<>>
    <2>1. SubSeq(own, 1, 0) = <<>>
      BY SubSeqEmpty
    <2>2. CASE Len(own) = 0
      BY <1>2, <2>1, <2>2
    <2>3. CASE Len(own) # 0
      <3>1. 0 < Len(own)
        BY <1>1, <2>3
      <3> QED BY <1>2, <2>1, <3>1
    <2> QED BY <2>2, <2>3
  <1>6. ASSUME NEW k \in Nat PROVE UnitPatches(n, k) \in Seq(Applications)
    <2> DEFINE m == IF k < Len(own) THEN k ELSE Len(own)
    <2>1. m \in Int /\ \A i \in 1..m : own[i] \in Applications
      BY <1>1, ElementOfSeq
    <2>2. UnitPatches(n, k) = SubSeq(own, 1, m)
      BY <1>2
    <2> HIDE DEF m
    <2>3. SubSeq(own, 1, m) \in Seq(Applications)
      BY <2>1, SubSeqProperties
    <2> QED BY <2>2, <2>3
  <1>7. ASSUME NEW k \in 1..Len(own)
        PROVE  UnitPatches(n, k) = Append(UnitPatches(n, k - 1), own[k])
    <2>1. k \in Nat /\ k - 1 \in Nat /\ k - 1 < Len(own) /\ own[k] \in Applications
          /\ 1 \in 1..Len(own) /\ k \in 1..Len(own)
      BY <1>1, ElementOfSeq
    <2>2. UnitPatches(n, k) = SubSeq(own, 1, k)
      <3>1. (IF k < Len(own) THEN k ELSE Len(own)) = k
        BY <1>1, <2>1
      <3> QED BY <1>2, <3>1
    <2>3. UnitPatches(n, k - 1) = SubSeq(own, 1, k - 1)
      BY <1>2, <2>1
    <2>4. SubSeq(own, 1, k) = SubSeq(own, 1, k - 1) \o <<own[k]>>
      BY <1>1, <2>1, SubSeqRecursiveSecond
    <2>5. Append(UnitPatches(n, k - 1), own[k]) = UnitPatches(n, k - 1) \o <<own[k]>>
      BY <1>6, <2>1, AppendIsConcat
    <2> QED BY <2>2, <2>3, <2>4, <2>5
  <1> QED BY <1>4, <1>5, <1>6, <1>7 DEF own

Composed(r, seq) ==
    CASE r.phase = "a"     -> <<>>
      [] r.phase = "b"     -> UnitPatches(r.n, seq)
      [] r.phase = "c"     -> PatchesOf(Applied(r.n - 1)) \o
                              UnitPatches(r.n, IF seq <= Len(Vulns[Order[r.n]]) THEN 0
                                               ELSE seq - Len(Vulns[Order[r.n]]))
      [] r.phase = "final" -> PatchesOf(Order)

(* Composed says it of every item, and also before the first. *)
LEMMA ComposedIsComposedAt ==
    ASSUME NEW r \in Roots, NEW seq \in 1..Len(ItemsOf[r])
    PROVE  ComposedAt[r][seq] = Composed(r, seq)
  BY DEF ComposedAt, Composed

(* Every root starts from the right tree when the one before it ends in it. *)
LEMMA ComposedAtFirst ==
    /\ Composed(PhaseA, 0) = <<>>
    /\ \A n \in Stages : Composed(At("b", n), 0) = <<>>
    /\ Composed(At("c", 1), 0) = <<>>
    /\ \A n \in Stages : Composed(At("c", n), 0) = PatchesOf(Applied(n - 1))
    /\ \A seq : Composed(Final, seq) = PatchesOf(Order)
  <1>1. Composed(PhaseA, 0) = <<>> /\ \A seq : Composed(Final, seq) = PatchesOf(Order)
    BY DEF Composed, PhaseA, Final, At
  <1>2. ASSUME NEW n \in Stages PROVE Composed(At("b", n), 0) = <<>>
    <2>1. Composed(At("b", n), 0) = UnitPatches(n, 0)
      BY DEF Composed, At
    <2> QED BY <2>1, UnitPatchesGrow
  <1>3. ASSUME NEW n \in Stages PROVE Composed(At("c", n), 0) = PatchesOf(Applied(n - 1))
    <2>1. 0 <= Len(Vulns[Order[n]])
      BY PatchesOfStages
    <2>2. Composed(At("c", n), 0) = PatchesOf(Applied(n - 1)) \o UnitPatches(n, 0)
      BY <2>1 DEF Composed, At
    <2> QED BY <2>2, UnitPatchesGrow, OneUnitMore, ConcatEmptySeq
  <1>4. PatchesOf(Applied(1 - 1)) = <<>> /\ 1 \in Stages
    <2>1. 0 \in 0..Len(Order) /\ 1 \in Stages /\ 1 - 1 = 0
      BY UnitsAreUnits DEF Stages
    <2>2. Applied(0) \in Seq(Units) /\ Len(Applied(0)) = 0
      BY <2>1, UnitsAreUnits
    <2> QED BY <2>1, <2>2, PatchListsAreLists
  <1> QED BY <1>1, <1>2, <1>3, <1>4

(* A patch extends the tree, and nothing else does. *)
LEMMA ComposedOneMore ==
    ASSUME root \in Roots, step \in Nat \ {0}, Unfinished
    PROVE  /\ Item.kind # "patch" => Composed(root, step) = Composed(root, step - 1)
           /\ Item.kind = "patch" =>
                Composed(root, step) = Append(Composed(root, step - 1), <<Order[root.n], Item.id>>)
  <1>0. root.phase \in {"a", "b", "c", "final"}
    BY ItemsOfRoots
  <1>1. CASE root.phase \in {"a", "final"}
    <2>1. Item.kind # "patch"
      BY <1>1, ItemsOfRoots DEF Commanded
    <2> QED BY <1>1, <2>1 DEF Composed
  <1>2. CASE root.phase = "b"
    <2> DEFINE n == root.n
               items == IsolatedItems(Order[n])
    <2>1. n \in Stages /\ ItemsOf[root] = items
      BY <1>2 DEF Roots, PhaseA, Final, At, ItemsOf
    <2>2. Item = items[step] /\ step <= Len(items)
      BY <2>1 DEF Item, Unfinished
    <2>3. /\ Composed(root, step) = UnitPatches(n, step)
          /\ Composed(root, step - 1) = UnitPatches(n, step - 1)
      BY <1>2 DEF Composed
    <2> HIDE DEF n
    <2>4. /\ Len(Own(n)) = Len(Patches[Order[n]]) /\ Len(Own(n)) \in Nat
          /\ \A i \in 1..Len(Own(n)) : Own(n)[i] = <<Order[n], Patches[Order[n]][i]>>
      BY <2>1, OwnPatches
    <2>5. /\ Begins(Items("patch", Patches[Order[n]]), items)
          /\ Len(Items("patch", Patches[Order[n]])) = Len(Own(n))
          /\ \A i \in 1..Len(Own(n)) : items[i] = [kind |-> "patch", id |-> Patches[Order[n]][i]]
      BY <2>1, <2>4, PatchesOfUnits
    <2>6. Len(items) \in Nat /\ \A i \in (Len(Own(n)) + 1)..Len(items) : items[i].kind \in Commanded
      BY <2>5 DEF Begins
    <2> HIDE DEF items
    <2>7. CASE step <= Len(Own(n))
      <3>1. step \in 1..Len(Own(n))
        BY <2>4, <2>7
      <3>2. Item.kind = "patch" /\ Own(n)[step] = <<Order[n], Item.id>>
        <4>1. items[step] = [kind |-> "patch", id |-> Patches[Order[n]][step]]
          BY <2>5, <3>1
        <4>2. Item = [kind |-> "patch", id |-> Patches[Order[n]][step]]
          BY <2>2, <4>1
        <4>3. Own(n)[step] = <<Order[n], Patches[Order[n]][step]>>
          BY <2>4, <3>1
        <4> QED BY <4>2, <4>3
      <3>3. UnitPatches(n, step) = Append(UnitPatches(n, step - 1), Own(n)[step])
        BY <2>1, <3>1, UnitPatchesGrow
      <3> QED BY <2>3, <3>2, <3>3 DEF n
    <2>8. CASE ~(step <= Len(Own(n)))
      <3>1. /\ step \in (Len(Own(n)) + 1)..Len(items)
            /\ step >= Len(Own(n)) /\ step - 1 >= Len(Own(n)) /\ step - 1 \in Nat /\ step \in Nat
        BY <2>2, <2>4, <2>6, <2>8
      <3>2. Item.kind # "patch"
        BY <2>2, <2>6, <3>1 DEF Commanded
      <3>3. UnitPatches(n, step) = Own(n) /\ UnitPatches(n, step - 1) = Own(n)
        BY <2>1, <3>1, UnitPatchesGrow
      <3> QED BY <2>3, <3>2, <3>3
    <2> QED BY <2>7, <2>8
  <1>3. CASE root.phase = "c"
    <2> DEFINE n == root.n
               items == StageItems(n)
               vulns == Len(Vulns[Order[n]])
               before == PatchesOf(Applied(n - 1))
               after(seq) == IF seq <= vulns THEN 0 ELSE seq - vulns
    <2>1. n \in Stages /\ ItemsOf[root] = items
      BY <1>3 DEF Roots, PhaseA, Final, At, ItemsOf
    <2>2. Item = items[step] /\ step <= Len(items)
      BY <2>1 DEF Item, Unfinished
    <2>3. /\ Composed(root, step) = before \o UnitPatches(n, after(step))
          /\ Composed(root, step - 1) = before \o UnitPatches(n, after(step - 1))
      BY <1>3 DEF Composed
    <2> HIDE DEF n
    <2>4. /\ Len(Own(n)) = Len(Patches[Order[n]]) /\ Len(Own(n)) \in Nat
          /\ \A i \in 1..Len(Own(n)) :
                Own(n)[i] = <<Order[n], Patches[Order[n]][i]>> /\ Own(n)[i] \in Applications
      BY <2>1, OwnPatches, ElementOfSeq
    <2>5. before \in Seq(Applications)
      BY <2>1, OneUnitMore
    <2>6. /\ vulns \in Nat /\ Len(items) \in Nat
          /\ \A i \in 1..vulns : items[i] = [kind |-> "preapply", id |-> Vulns[Order[n]][i]]
          /\ \A i \in 1..Len(Own(n)) :
                items[vulns + i] = [kind |-> "patch", id |-> Patches[Order[n]][i]]
          /\ \A i \in (vulns + Len(Own(n)) + 1)..Len(items) : items[i].kind \in Commanded
      BY <2>1, <2>4, PatchesOfStages
    <2> HIDE DEF items, vulns, before
    <2>7. CASE step <= vulns
      <3>1. step \in 1..vulns /\ step - 1 <= vulns
        BY <2>6, <2>7
      <3>2. Item.kind = "preapply"
        <4>1. items[step] = [kind |-> "preapply", id |-> Vulns[Order[n]][step]]
          BY <2>6, <3>1
        <4> QED BY <2>2, <4>1
      <3>3. after(step) = 0 /\ after(step - 1) = 0
        BY <2>7, <3>1
      <3> QED BY <2>3, <3>2, <3>3
    <2>8. CASE ~(step <= vulns) /\ step <= vulns + Len(Own(n))
      <3> DEFINE k == step - vulns
      <3>1. k \in 1..Len(Own(n)) /\ vulns + k = step /\ k - 1 \in Nat
        BY <2>4, <2>6, <2>8
      <3>2. after(step) = k /\ after(step - 1) = k - 1
        BY <2>6, <2>8
      <3> HIDE DEF k
      <3>3. Item.kind = "patch" /\ Own(n)[k] = <<Order[n], Item.id>> /\ Own(n)[k] \in Applications
        <4>1. items[vulns + k] = [kind |-> "patch", id |-> Patches[Order[n]][k]]
          BY <2>6, <3>1
        <4> QED BY <2>2, <2>4, <3>1, <4>1
      <3>4. /\ UnitPatches(n, k) = Append(UnitPatches(n, k - 1), Own(n)[k])
            /\ UnitPatches(n, k - 1) \in Seq(Applications)
        BY <2>1, <3>1, UnitPatchesGrow
      <3> DEFINE first == UnitPatches(n, k - 1)
                 e == Own(n)[k]
      <3>5. first \in Seq(Applications) /\ e \in Applications /\ <<e>> \in Seq(Applications)
        BY <3>3, <3>4
      <3> HIDE DEF first, e
      <3>6. before \o Append(first, e) = Append(before \o first, e)
        <4>1. Append(first, e) = first \o <<e>>
          BY <3>5, AppendIsConcat
        <4>2. (before \o first) \o <<e>> = before \o (first \o <<e>>)
          BY <2>5, <3>5, ConcatAssociative
        <4>3. before \o first \in Seq(Applications)
          BY <2>5, <3>5, ConcatProperties
        <4>4. Append(before \o first, e) = (before \o first) \o <<e>>
          BY <3>5, <4>3, AppendIsConcat
        <4> QED BY <4>1, <4>2, <4>4
      <3>7. Composed(root, step) = before \o Append(first, e)
        BY <2>3, <3>2, <3>4 DEF first, e
      <3>8. Composed(root, step - 1) = before \o first
        BY <2>3, <3>2 DEF first
      <3> QED BY <3>3, <3>6, <3>7, <3>8 DEF e, n
    <2>9. CASE ~(step <= vulns + Len(Own(n)))
      <3>1. /\ step \in (vulns + Len(Own(n)) + 1)..Len(items)
            /\ ~(step <= vulns) /\ step - vulns >= Len(Own(n)) /\ step - vulns \in Nat
        BY <2>2, <2>4, <2>6, <2>9
      <3>2. Item.kind # "patch"
        BY <2>2, <2>6, <3>1 DEF Commanded
      <3>3. UnitPatches(n, after(step)) = Own(n)
        BY <2>1, <3>1, UnitPatchesGrow
      <3>4. after(step - 1) \in Nat /\ after(step - 1) >= Len(Own(n))
        BY <2>4, <2>6, <2>9
      <3>5. UnitPatches(n, after(step - 1)) = Own(n)
        BY <2>1, <3>4, UnitPatchesGrow
      <3> QED BY <2>3, <3>2, <3>3, <3>5
    <2> QED BY <2>7, <2>8, <2>9
  <1> QED BY <1>0, <1>1, <1>2, <1>3

(* A stage that has run all its items leaves the tree of the next, and the *)
(* last stage that of the final verification.                              *)
LEMMA ComposedAtLast ==
    ASSUME root \in Roots, step \in Nat \ {0}, ~Unfinished, root.phase = "c"
    PROVE  Composed(root, step - 1) = PatchesOf(Applied(root.n))
  <1> DEFINE n == root.n
             vulns == Len(Vulns[Order[n]])
             k == (step - 1) - vulns
  <1>1. n \in Stages /\ ItemsOf[root] = StageItems(n)
    BY DEF Roots, PhaseA, Final, At, ItemsOf
  <1>2. Composed(root, step - 1)
            = PatchesOf(Applied(n - 1)) \o UnitPatches(n, IF step - 1 <= vulns THEN 0 ELSE k)
    BY DEF Composed
  <1>3. ~(step <= Len(StageItems(n)))
    BY <1>1 DEF Unfinished
  <1> HIDE DEF n
  <1>4. Len(Own(n)) = Len(Patches[Order[n]]) /\ Len(Own(n)) \in Nat
    BY <1>1, OwnPatches
  <1>5. vulns \in Nat /\ Len(StageItems(n)) \in Nat /\ vulns + Len(Own(n)) < Len(StageItems(n))
    BY <1>1, <1>4, PatchesOfStages
  <1> HIDE DEF vulns
  <1>6. k \in Nat /\ k >= Len(Own(n)) /\ (step - 1 <= vulns => k = 0)
    BY <1>3, <1>4, <1>5
  <1>7. UnitPatches(n, IF step - 1 <= vulns THEN 0 ELSE k) = UnitPatches(n, k)
    BY <1>6
  <1> HIDE DEF k
  <1>8. UnitPatches(n, k) = Own(n)
    BY <1>1, <1>6, UnitPatchesGrow
  <1> QED BY <1>1, <1>2, <1>7, <1>8, OneUnitMore DEF n

-----------------------------------------------------------------------------
(* The tree that is worked in.  Besides the tree of the running root the   *)
(* invariant says where the loops open a worktree: at the first item of a  *)
(* unit, and once for all of Phase C, which patches one tree stage by      *)
(* stage and hands it to the final verification.                           *)
TreeFollows ==
    /\ pc = "run" => tree.patches = Composed(root, step - 1)
    /\ pc = "open" => step = 1 /\ (root.phase = "b" \/ root = At("c", 1))
    /\ root.phase = "a" => tree.patches = <<>>

(* What a command does to the tree is no patch. *)
LEMMA TouchedKeepsPatches ==
    ASSUME TypeOK
    PROVE  /\ \A effect : Touched(tree, effect).patches = tree.patches
           /\ WithoutGenerated(tree).patches = tree.patches
           /\ patched.patches = Append(tree.patches, <<Order[root.n], Item.id>>)
  BY DEF TypeOK, TreeOK, Touched, WithoutGenerated, patched

(* A check is executed in the tree its phase is about, up to its number. *)
LEMMA TreeOfCheck ==
    ASSUME TypeOK, TreeFollows,
           \/ CheckPasses \/ CommandFails \/ ResultRejected \/ CheckRecordLost
           \/ PatchApplies \/ PatchRecordLost
    PROVE  /\ pc = "run" /\ Unfinished /\ root' = root
           /\ tree'.patches = Composed(root, step)
  <1>1. pc = "run" /\ Unfinished /\ root' = root
    BY DEF CheckPasses, CommandFails, ResultRejected, CheckRecordLost, PatchApplies, PatchRecordLost,
       AtCommand, AtPatch, commandVars
  <1>2. tree.patches = Composed(root, step - 1)
    BY <1>1 DEF TreeFollows
  <1>3. root \in Roots /\ step \in Nat \ {0}
    BY DEF TypeOK
  <1>4. CASE CheckPasses \/ CommandFails \/ ResultRejected \/ CheckRecordLost
    <2>1. Item.kind # "patch" /\ \E effect : tree' = Touched(tree, effect)
      BY <1>4 DEF CheckPasses, CommandFails, ResultRejected, CheckRecordLost, AtCommand
    <2>2. tree'.patches = tree.patches
      BY <2>1, TouchedKeepsPatches
    <2>3. Composed(root, step) = Composed(root, step - 1)
      BY <1>1, <1>3, <2>1, ComposedOneMore
    <2> QED BY <1>1, <1>2, <2>2, <2>3
  <1>5. CASE PatchApplies \/ PatchRecordLost
    <2>1. Item.kind = "patch" /\ tree' = patched
      BY <1>5 DEF PatchApplies, PatchRecordLost, AtPatch
    <2>2. Composed(root, step) = Append(Composed(root, step - 1), <<Order[root.n], Item.id>>)
      BY <1>1, <1>3, <2>1, ComposedOneMore
    <2> QED BY <1>1, <1>2, <2>1, <2>2, TouchedKeepsPatches
  <1> QED BY <1>4, <1>5

(* Every step leaves the tree that the next item needs. *)
LEMMA TreeFollowsStep ==
    ASSUME TypeOK, WorktreesFollow, TreeFollows, [Next]_vars
    PROVE  TreeFollows'
  <1>0. /\ root \in Roots /\ step \in Nat \ {0} /\ 1 - 1 = 0
        /\ \A n : At("b", n).phase = "b" /\ At("c", n).phase = "c" /\ At("c", n).n = n
        /\ PhaseA.phase = "a" /\ Final.phase = "final"
        /\ root.phase = "c" => root.n \in Stages
        /\ BaseTree.patches = <<>>
    BY DEF TypeOK, At, PhaseA, Final, BaseTree, Roots
  <1>1. CASE Prepare
    BY <1>0, <1>1 DEF TreeFollows, Prepare, RejectCampaign, CreateRun, QualifyRuntime,
       RejectRuntime, CaptureInputs, FailCapture, OpenBaseline, FailBaselineWorktree, Leave, inputVars
  <1>2. CASE EnterPhaseA
    <2>1. root.phase = "a" /\ tree' = tree /\ tree.patches = <<>>
      BY <1>2 DEF EnterPhaseA, WorktreesFollow, TreeFollows
    <2>2. pc' = "run" => root' = PhaseA /\ step' = 1
      BY <1>2 DEF EnterPhaseA, Start
    <2>3. pc' # "open"
      BY <1>2 DEF EnterPhaseA
    <2> QED BY <1>0, <2>1, <2>2, <2>3, ComposedAtFirst DEF TreeFollows
  <1>3. CASE EnterPhaseB \/ EnterPhaseC
    <2>1. /\ pc' \in {"open", "except"} /\ tree' = tree
          /\ pc' = "open" => step' = 1 /\ root' \in {At("b", 1), At("c", 1)}
          /\ pc' = "except" => root' = root
      BY <1>3 DEF EnterPhaseB, EnterPhaseC, Start
    <2> QED BY <1>0, <2>1 DEF TreeFollows
  <1>4. CASE OpenWorktree
    <2>1. /\ pc = "open" /\ step = 1 /\ root' = root /\ step' = step
          /\ root.phase = "b" \/ root = At("c", 1)
      BY <1>4 DEF OpenWorktree, TreeFollows
    <2>2. Composed(root, 0) = <<>>
      <3>1. CASE root.phase = "b"
        <4>1. root.n \in Stages /\ root = At("b", root.n)
          BY <1>0, <3>1 DEF Roots, At, PhaseA, Final
        <4> QED BY <4>1, ComposedAtFirst
      <3>2. CASE root = At("c", 1)
        BY <3>2, ComposedAtFirst
      <3> QED BY <2>1, <3>1, <3>2
    <2>3. pc' = "run" => tree' = BaseTree
      BY <1>4 DEF OpenWorktree
    <2>4. pc' # "open" /\ root.phase # "a"
      BY <1>0, <1>4, <2>1 DEF OpenWorktree
    <2> QED BY <1>0, <2>1, <2>2, <2>3, <2>4 DEF TreeFollows
  <1>5. CASE CheckPasses \/ CommandFails \/ ResultRejected \/ CheckRecordLost \/ PatchApplies
                \/ PatchRecordLost
    <2>1. /\ Unfinished /\ root' = root /\ tree'.patches = Composed(root, step)
      BY <1>5, TreeOfCheck
    <2>2. pc' \in {"run", "handler"} /\ (pc' = "run" => step' = step + 1)
      BY <1>5 DEF CheckPasses, CommandFails, ResultRejected, CheckRecordLost, PatchApplies,
         PatchRecordLost, AtCommand, AtPatch
    <2>3. (step + 1) - 1 = step
      BY <1>0
    <2>4. root.phase = "a" => Composed(root, step) = <<>>
      BY DEF Composed
    <2> QED BY <2>1, <2>2, <2>3, <2>4 DEF TreeFollows
  <1>6. CASE Interrupt \/ PatchFails \/ BeginApply \/ BeginVerify
    <2>1. /\ root' = root /\ step' = step /\ tree' = tree /\ pc' # "open"
          /\ pc' = "run" => pc = "run"
      BY <1>6 DEF Interrupt, PatchFails, BeginApply, BeginVerify, AdvanceStage, AtCommand, AtPatch,
         commandVars, Running
    <2> QED BY <2>1 DEF TreeFollows
  <1>7. CASE FinishBaseline \/ FinishUnit \/ FinishFinal \/ RejectFindings \/ AssembleEvidence
    <2>1. /\ root' = root /\ tree'.patches = tree.patches /\ pc' \notin {"run", "open"}
      BY <1>7, TouchedKeepsPatches DEF FinishBaseline, FinishUnit, FinishFinal, RejectFindings,
         AssembleEvidence, finishVars
    <2> QED BY <2>1 DEF TreeFollows
  <1>8. CASE FinishStage \/ EnterFinal
    <2>1. /\ pc = "run" /\ root.phase = "c" /\ ~Unfinished /\ tree' = tree
          /\ pc' \in {"run", "handler"}
          /\ pc' = "handler" => root' = root
      BY <1>8 DEF FinishStage, EnterFinal, Running
    <2>2. tree.patches = PatchesOf(Applied(root.n))
      BY <1>0, <2>1, ComposedAtLast DEF TreeFollows
    <2>3. CASE pc' = "handler"
      BY <2>1, <2>3 DEF TreeFollows
    <2>4. CASE FinishStage /\ pc' = "run"
      <3>1. root' = At("c", root.n + 1) /\ step' = 1 /\ root.n < Len(Order)
        BY <2>4 DEF FinishStage
      <3>2. root.n + 1 \in Stages /\ (root.n + 1) - 1 = root.n
        <4>1. Len(Order) \in Nat /\ root.n \in 1..Len(Order)
          BY <1>0, <2>1, UnitsAreUnits DEF Stages
        <4> QED BY <3>1, <4>1 DEF Stages
      <3>3. Composed(At("c", root.n + 1), 0) = PatchesOf(Applied(root.n))
        BY <3>2, ComposedAtFirst
      <3> QED BY <1>0, <2>1, <2>2, <2>4, <3>1, <3>3 DEF TreeFollows
    <2>5. CASE EnterFinal /\ pc' = "run"
      <3>1. root' = Final /\ step' = 1 /\ root.n = Len(Order)
        BY <2>5 DEF EnterFinal
      <3>2. Composed(Final, 0) = PatchesOf(Applied(root.n))
        BY <3>1, ComposedAtFirst, UnitsAreUnits
      <3> QED BY <1>0, <2>1, <2>2, <2>5, <3>1, <3>2 DEF TreeFollows
    <2> QED BY <1>8, <2>1, <2>3, <2>4, <2>5
  <1>9. CASE FailPhase \/ PersistTerminalFailure
    BY <1>9 DEF FailPhase, PersistTerminalFailure, Leave, finishVars, TreeFollows
  <1>10. CASE RemoveWorktree \/ FailWorktreeRemoval
    <2>1. tree' = tree /\ pc' = After(exc') /\ NextUnit
      BY <1>10 DEF RemoveWorktree, FailWorktreeRemoval
    <2>2. pc' # "run"
      BY <2>1 DEF After
    <2>3. CASE pc' = "open"
      <3>1. root' = At("b", root.n + 1) /\ step' = 1
        BY <2>1, <2>3 DEF NextUnit, Start
      <3> QED BY <1>0, <2>2, <2>3, <3>1 DEF TreeFollows
    <2>4. CASE pc' # "open"
      BY <2>1, <2>2, <2>4 DEF NextUnit, TreeFollows
    <2> QED BY <2>3, <2>4
  <1>11. CASE Close \/ FailClose
    BY <1>11 DEF Close, FailClose, TreeFollows
  <1>12. CASE Accept \/ Kill
    BY <1>12 DEF Accept, VerifyEvidence, RejectEvidence, WriteVerdict, WriteReport, PersistAccepted,
       RecordOutcome, SealAcceptance, AcceptanceWrite, WithdrawAcceptance, Kill, acceptVars, TreeFollows
  <1>13. CASE UNCHANGED vars
    BY <1>13 DEF vars, TreeFollows
  <1> QED
    BY <1>1, <1>2, <1>3, <1>4, <1>5, <1>6, <1>7, <1>8, <1>9, <1>10, <1>11, <1>12, <1>13
       DEF Next, Step, Enter, Command, Patch, Finish, Cleanup, Ended

(* The worktree always holds the patches that the running root is about:   *)
(* the inductive invariant behind ChecksRightlyPlaced.                     *)
THEOREM TreeInvariant == Spec => []TreeFollows
  <1>1. Init => TreeFollows
    BY DEF Init, TreeFollows, PhaseA, At, BaseTree
  <1>2. TypeOK /\ (ExceptionsFollow /\ WorktreesFollow) /\ TreeFollows /\ [Next]_vars => TreeFollows'
    BY TreeFollowsStep
  <1> QED BY <1>1, <1>2, TypeCorrect, PlacesInvariant, PTL DEF Spec

(* What is executed is the next item, and it is logged with the tree it    *)
(* ran in.                                                                 *)
LEMMA WhatIsLogged ==
    ASSUME [Next]_vars, NEW c \in ran', c \notin ran
    PROVE  /\ \/ CheckPasses \/ CommandFails \/ ResultRejected \/ CheckRecordLost \/ PatchApplies
           /\ c.root = root /\ c.seq = step /\ c.kind = Item.kind /\ c.patches = tree'.patches
  <1>1. ASSUME NEW end, NEW answer, Logged(end, answer)
        PROVE  c.root = root /\ c.seq = step /\ c.kind = Item.kind /\ c.patches = tree'.patches
    BY <1>1 DEF Logged
  <1>2. CASE CheckPasses \/ CommandFails \/ ResultRejected \/ CheckRecordLost \/ PatchApplies
    BY <1>1, <1>2 DEF CheckPasses, CommandFails, ResultRejected, CheckRecordLost, PatchApplies
  <1>3. CASE Prepare
    BY <1>3 DEF Prepare, RejectCampaign, CreateRun, QualifyRuntime, RejectRuntime, CaptureInputs,
       FailCapture, OpenBaseline, FailBaselineWorktree, inputVars
  <1>4. CASE Enter \/ Interrupt
    BY <1>4 DEF Enter, EnterPhaseA, EnterPhaseB, EnterPhaseC, OpenWorktree, Interrupt
  <1>5. CASE PatchFails \/ PatchRecordLost \/ BeginApply \/ BeginVerify
    BY <1>5 DEF PatchFails, PatchRecordLost, BeginApply, BeginVerify, AdvanceStage
  <1>6. CASE Finish
    BY <1>6 DEF Finish, FinishBaseline, FinishUnit, FinishStage, EnterFinal, FinishFinal,
       RejectFindings, AssembleEvidence, finishVars
  <1>7. CASE FailPhase \/ PersistTerminalFailure
    BY <1>7 DEF FailPhase, PersistTerminalFailure, finishVars
  <1>8. CASE Cleanup
    BY <1>8 DEF Cleanup, RemoveWorktree, FailWorktreeRemoval, Close, FailClose
  <1>9. CASE Accept \/ Kill
    BY <1>9 DEF Accept, VerifyEvidence, RejectEvidence, WriteVerdict, WriteReport, PersistAccepted,
       RecordOutcome, SealAcceptance, AcceptanceWrite, WithdrawAcceptance, Kill, acceptVars
  <1>10. CASE UNCHANGED vars
    BY <1>10 DEF vars
  <1> QED
    BY <1>2, <1>3, <1>4, <1>5, <1>6, <1>7, <1>8, <1>9, <1>10
       DEF Next, Step, Command, Patch, Ended

(* Nothing that was executed is forgotten. *)
LEMMA RanGrows == [Next]_vars => ran \subseteq ran'
  BY OneCheckAtATime

(* Whatever fails, every command and every patch of every phase ran in the *)
(* tree that the phase is about: the base commit, one unit alone, the      *)
(* units so far, or all of them in composition order.                      *)
THEOREM ChecksRightlyPlaced == Spec => []ChecksRunOnTheRightTree
  <1>1. Init => ChecksRunOnTheRightTree
    BY DEF Init, ChecksRunOnTheRightTree
  <1>2. TypeOK /\ TreeFollows /\ ChecksRunOnTheRightTree /\ [Next]_vars => ChecksRunOnTheRightTree'
    <2> SUFFICES ASSUME TypeOK, TreeFollows, ChecksRunOnTheRightTree, [Next]_vars, NEW c \in ran'
                 PROVE  c.patches = ComposedAt[c.root][c.seq]
      BY DEF ChecksRunOnTheRightTree
    <2>1. CASE c \in ran
      BY <2>1 DEF ChecksRunOnTheRightTree
    <2>2. CASE c \notin ran
      <3>1. /\ \/ CheckPasses \/ CommandFails \/ ResultRejected \/ CheckRecordLost \/ PatchApplies
            /\ c.root = root /\ c.seq = step /\ c.patches = tree'.patches
        BY <2>2, WhatIsLogged
      <3>2. Unfinished /\ tree'.patches = Composed(root, step)
        BY <3>1, TreeOfCheck
      <3>3. root \in Roots /\ step \in 1..Len(ItemsOf[root])
        BY <3>2, ItemsOfRoots DEF TypeOK, Unfinished
      <3> QED BY <3>1, <3>2, <3>3, ComposedIsComposedAt
    <2> QED BY <2>1, <2>2
  <1> QED BY <1>1, <1>2, TypeCorrect, TreeInvariant, PTL DEF Spec

-----------------------------------------------------------------------------
(* Overlap.  While a stage runs, the oracles it has passed have reproduced *)
(* their vulnerability in the tree of the stage before.                    *)
Reproduced(r, v) ==
    \E o \in ran : /\ o.root = r /\ o.kind = "preapply" /\ o.id = v /\ o.answer = "vulnerable"
                   /\ o.patches = PatchesOf(Applied(r.n - 1))

PreapplyAsked ==
    Running("c") =>
        \A i \in 1..Len(Vulns[Order[root.n]]) : i < step => Reproduced(root, Vulns[Order[root.n]][i])

(* The first items of a stage are those oracles. *)
LEMMA FirstOfStage ==
    ASSUME root \in Roots, root.phase = "c"
    PROVE  /\ root.n \in Stages /\ Len(Vulns[Order[root.n]]) \in Nat
           /\ \A i \in 1..Len(Vulns[Order[root.n]]) :
                ItemsOf[root][i] = [kind |-> "preapply", id |-> Vulns[Order[root.n]][i]]
           /\ \A i \in 1..Len(Vulns[Order[root.n]]) : Composed(root, i) = PatchesOf(Applied(root.n - 1))
  <1>1. root.n \in Stages
    BY DEF Roots, PhaseA, Final, At
  <1>2. ItemsOf[root] = StageItems(root.n)
    BY DEF ItemsOf
  <1>3. /\ Len(Vulns[Order[root.n]]) \in Nat
        /\ \A i \in 1..Len(Vulns[Order[root.n]]) :
                StageItems(root.n)[i] = [kind |-> "preapply", id |-> Vulns[Order[root.n]][i]]
    BY <1>1, PatchesOfStages
  <1>4. ASSUME NEW i \in 1..Len(Vulns[Order[root.n]])
        PROVE  Composed(root, i) = PatchesOf(Applied(root.n - 1))
    <2>1. i <= Len(Vulns[Order[root.n]])
      BY <1>3
    <2>2. Composed(root, i) = PatchesOf(Applied(root.n - 1)) \o UnitPatches(root.n, 0)
      BY <2>1 DEF Composed
    <2> QED BY <1>1, <2>2, UnitPatchesGrow, OneUnitMore, ConcatEmptySeq
  <1> QED BY <1>1, <1>2, <1>3, <1>4

(* Asked and answered, one oracle after the other. *)
LEMMA PreapplyAskedStep ==
    ASSUME TypeOK, TreeFollows, PreapplyAsked, [Next]_vars
    PROVE  PreapplyAsked'
  <1> SUFFICES ASSUME Running("c")', NEW i \in 1..Len(Vulns[Order[root'.n]]), i < step'
               PROVE  Reproduced(root, Vulns[Order[root.n]][i])'
    BY DEF PreapplyAsked
  <1>0. /\ pc' = "run" /\ root'.phase = "c" /\ step \in Nat \ {0} /\ root \in Roots
        /\ root' \in Roots /\ step' \in Nat \ {0}
    BY TypeOKStep DEF Running, TypeOK
  <1>1. Len(Vulns[Order[root'.n]]) \in Nat
    <2>1. root'.n \in Stages
      BY <1>0 DEF Roots, PhaseA, Final, At
    <2> QED BY <2>1, PatchesOfStages
  <1>2. ASSUME pc = "run", root' = root, i < step
        PROVE  Reproduced(root, Vulns[Order[root.n]][i])'
    <2>1. Reproduced(root, Vulns[Order[root.n]][i])
      BY <1>0, <1>2 DEF PreapplyAsked, Running
    <2> QED BY <1>2, <2>1, RanGrows DEF Reproduced
  <1>3. CASE CheckPasses \/ PatchApplies
    <2>1. pc = "run" /\ Unfinished /\ root' = root /\ step' = step + 1 /\ tree'.patches = Composed(root, step)
      BY <1>3, TreeOfCheck DEF CheckPasses, PatchApplies
    <2>2. CASE i < step
      BY <1>2, <2>1, <2>2
    <2>3. CASE ~(i < step)
      <3>1. i = step
        BY <1>0, <1>1, <2>1, <2>3
      <3>2. Item = [kind |-> "preapply", id |-> Vulns[Order[root.n]][i]]
        <4>1. ItemsOf[root][i] = [kind |-> "preapply", id |-> Vulns[Order[root.n]][i]]
          BY <1>0, <2>1, FirstOfStage
        <4> QED BY <3>1, <4>1 DEF Item
      <3>3. Item.kind = "preapply" /\ Item.id = Vulns[Order[root.n]][i]
        BY <3>2
      <3>4. CheckPasses
        BY <1>3, <3>3 DEF PatchApplies, AtPatch
      <3>5. AnswersTaken = {"vulnerable"}
        BY <3>3 DEF AnswersTaken, Wanted, Oracles
      <3>6. Logged("zero", "vulnerable")
        BY <3>4, <3>5 DEF CheckPasses
      <3>7. tree'.patches = PatchesOf(Applied(root.n - 1))
        BY <1>0, <2>1, <3>1, FirstOfStage
      <3> DEFINE o == [root |-> root, seq |-> step, kind |-> Item.kind, id |-> Item.id,
                       end |-> "zero", answer |-> "vulnerable", patches |-> tree'.patches,
                       intact |-> tree'.dirt # "tampered"]
      <3>8. o \in ran'
        BY <3>6 DEF Logged
      <3>9. /\ o.root = root /\ o.kind = "preapply" /\ o.id = Vulns[Order[root.n]][i]
            /\ o.answer = "vulnerable" /\ o.patches = PatchesOf(Applied(root.n - 1))
        BY <3>3, <3>7
      <3> HIDE DEF o
      <3> QED BY <2>1, <3>8, <3>9 DEF Reproduced
    <2> QED BY <2>2, <2>3
  <1>4. CASE EnterPhaseA \/ FinishStage \/ EnterFinal \/ OpenWorktree
    <2>1. \/ step' = 1
          \/ pc' \in {"handler", "except"}
          \/ OpenWorktree /\ step' = step
      BY <1>4 DEF EnterPhaseA, Start, FinishStage, EnterFinal, OpenWorktree
    <2>2. OpenWorktree => step = 1
      BY DEF OpenWorktree, TreeFollows
    <2>3. step' = 1
      BY <1>0, <2>1, <2>2
    <2> QED BY <1>1, <2>3
  <1>5. CASE BeginApply \/ BeginVerify \/ Interrupt
    <2>1. pc = "run" /\ root' = root /\ step' = step
      BY <1>5 DEF BeginApply, BeginVerify, AdvanceStage, Running, Interrupt, AtCommand, commandVars
    <2> QED BY <1>2, <2>1
  <1>6. CASE UNCHANGED vars
    <2>1. pc = "run" /\ root' = root /\ step' = step
      BY <1>0, <1>6 DEF vars
    <2> QED BY <1>2, <2>1
  <1>7. CASE Prepare \/ EnterPhaseB \/ EnterPhaseC
    BY <1>0, <1>7 DEF Prepare, RejectCampaign, CreateRun, QualifyRuntime, RejectRuntime, CaptureInputs,
       FailCapture, OpenBaseline, FailBaselineWorktree, Leave, EnterPhaseB, EnterPhaseC
  <1>8. CASE CommandFails \/ ResultRejected \/ CheckRecordLost \/ PatchFails \/ PatchRecordLost
    BY <1>0, <1>8 DEF CommandFails, ResultRejected, CheckRecordLost, PatchFails, PatchRecordLost
  <1>9. CASE FinishBaseline \/ FinishUnit \/ FinishFinal \/ RejectFindings \/ AssembleEvidence
    BY <1>0, <1>9 DEF FinishBaseline, FinishUnit, FinishFinal, RejectFindings, AssembleEvidence
  <1>10. CASE FailPhase \/ PersistTerminalFailure \/ Kill
    <2>1. pc' # "run"
      BY <1>10 DEF FailPhase, PersistTerminalFailure, Leave, Kill
    <2> QED BY <1>0, <2>1
  <1>11. CASE Cleanup
    <2>1. \A e : After(e) # "run"
      BY DEF After
    <2>2. pc' # "run"
      BY <1>11, <2>1 DEF Cleanup, RemoveWorktree, FailWorktreeRemoval, Close, FailClose
    <2> QED BY <1>0, <2>2
  <1>12. CASE Accept
    BY <1>0, <1>12 DEF Accept, VerifyEvidence, RejectEvidence, WriteVerdict, WriteReport,
       PersistAccepted, RecordOutcome, SealAcceptance, AcceptanceWrite, WithdrawAcceptance
  <1> QED
    BY <1>3, <1>4, <1>5, <1>6, <1>7, <1>8, <1>9, <1>10, <1>11, <1>12
       DEF Next, Step, Enter, Command, Patch, Finish, Ended

(* A patch of a stage comes when all of them have been asked. *)
LEMMA PatchesComeLater ==
    ASSUME TypeOK, PreapplyAsked, Running("c"), Item.kind = "patch",
           NEW v \in ToSet(Vulns[Order[root.n]])
    PROVE  Reproduced(root, v)
  <1> DEFINE vulns == Vulns[Order[root.n]]
  <1>1. root \in Roots /\ root.phase = "c" /\ step \in Nat \ {0}
    BY DEF TypeOK, Running
  <1>2. /\ root.n \in Stages /\ Len(vulns) \in Nat
        /\ \A i \in 1..Len(vulns) : ItemsOf[root][i] = [kind |-> "preapply", id |-> vulns[i]]
    BY <1>1, FirstOfStage
  <1>3. vulns \in Seq(Ids)
    BY <1>2, UnitsAreUnits, IdsAreIds
  <1>4. \A i \in 1..Len(vulns) : i < step => Reproduced(root, vulns[i])
    BY DEF PreapplyAsked
  <1> HIDE DEF vulns
  <1>5. ~(step \in 1..Len(vulns))
    <2> SUFFICES ASSUME step \in 1..Len(vulns) PROVE FALSE
      OBVIOUS
    <2>1. Item = [kind |-> "preapply", id |-> vulns[step]]
      BY <1>2 DEF Item
    <2>2. Item.kind = "preapply"
      BY <2>1
    <2> QED BY <2>2
  <1>6. \A i \in 1..Len(vulns) : i < step
    BY <1>1, <1>2, <1>5
  <1>7. PICK i \in 1..Len(vulns) : v = vulns[i]
    BY <1>3 DEF ToSet, vulns
  <1> QED BY <1>4, <1>6, <1>7

(* No patch of a unit is applied to the cumulative tree unless every       *)
(* vulnerability of the unit was reproduced there before: for every order  *)
(* of units, and whatever fails.                                           *)
THEOREM OverlapIsLookedFor == Spec => []OverlapIsCheckedFirst
  <1>1. Init => PreapplyAsked /\ OverlapIsCheckedFirst
    BY DEF Init, PreapplyAsked, Running, OverlapIsCheckedFirst
  <1>2. TypeOK /\ TreeFollows /\ PreapplyAsked /\ OverlapIsCheckedFirst /\ [Next]_vars
            => OverlapIsCheckedFirst'
    <2> SUFFICES ASSUME TypeOK, PreapplyAsked, OverlapIsCheckedFirst, [Next]_vars,
                        NEW c \in ran', c.root.phase = "c", c.kind = "patch",
                        NEW v \in ToSet(Vulns[Order[c.root.n]])
                 PROVE  Reproduced(c.root, v)'
      BY DEF OverlapIsCheckedFirst, Reproduced
    <2>1. Reproduced(c.root, v)
      <3>1. CASE c \in ran
        BY <3>1 DEF OverlapIsCheckedFirst, Reproduced
      <3>2. CASE c \notin ran
        <4>1. /\ \/ CheckPasses \/ CommandFails \/ ResultRejected \/ CheckRecordLost \/ PatchApplies
              /\ c.root = root /\ Item.kind = "patch"
          BY <3>2, WhatIsLogged
        <4>2. pc = "run"
          BY <4>1 DEF CheckPasses, CommandFails, ResultRejected, CheckRecordLost, PatchApplies,
             AtCommand, AtPatch
        <4>3. Running("c")
          BY <4>1, <4>2 DEF Running
        <4> QED BY <4>1, <4>3, PatchesComeLater
      <3> QED BY <3>1, <3>2
    <2> QED BY <2>1, RanGrows DEF Reproduced
  <1>3. TypeOK /\ TreeFollows /\ PreapplyAsked /\ [Next]_vars => PreapplyAsked'
    BY PreapplyAskedStep
  <1> QED BY <1>1, <1>2, <1>3, TypeCorrect, TreeInvariant, PTL DEF Spec

-----------------------------------------------------------------------------
(* The combined diff.                                                      *)
Composition == [patches |-> PatchesOf(Order), dirt |-> "none"]

CombinedFollows == Verified => combined = Composition

(* It is taken once, at the end of the final verification. *)
LEMMA OthersKeepCombined ==
    ASSUME [Next]_vars
    PROVE  FinishFinal \/ UNCHANGED combined
  <1>1. CASE Prepare
    BY <1>1 DEF Prepare, RejectCampaign, CreateRun, QualifyRuntime, RejectRuntime, CaptureInputs,
       FailCapture, OpenBaseline, FailBaselineWorktree, inputVars
  <1>2. CASE Enter
    BY <1>2 DEF Enter, EnterPhaseA, EnterPhaseB, EnterPhaseC, OpenWorktree
  <1>3. CASE Command \/ Patch
    BY <1>3 DEF Command, CheckPasses, CommandFails, ResultRejected, CheckRecordLost, Interrupt,
       commandVars, Patch, PatchApplies, PatchFails, PatchRecordLost, BeginApply, BeginVerify,
       AdvanceStage
  <1>4. CASE Finish
    BY <1>4 DEF Finish, FinishBaseline, FinishUnit, FinishStage, EnterFinal, RejectFindings,
       AssembleEvidence
  <1>5. CASE FailPhase \/ PersistTerminalFailure
    BY <1>5 DEF FailPhase, PersistTerminalFailure
  <1>6. CASE Cleanup
    BY <1>6 DEF Cleanup, RemoveWorktree, FailWorktreeRemoval, Close, FailClose
  <1>7. CASE Accept
    BY <1>7 DEF Accept, VerifyEvidence, RejectEvidence, WriteVerdict, WriteReport, PersistAccepted,
       RecordOutcome, SealAcceptance, AcceptanceWrite, WithdrawAcceptance, acceptVars
  <1>8. CASE Kill \/ UNCHANGED vars
    BY <1>8 DEF Kill, acceptVars, vars
  <1> QED BY <1>1, <1>2, <1>3, <1>4, <1>5, <1>6, <1>7, <1>8 DEF Next, Step, Ended

(* What is verified stays what the diff was taken from. *)
LEMMA CombinedFollowsStep ==
    ASSUME TypeOK, ExceptionsFollow, TreeIsIntact, TreeFollows, FindingsInv, CombinedFollows, [Next]_vars
    PROVE  CombinedFollows'
  <1> SUFFICES ASSUME Verified' PROVE combined' = Composition
    BY DEF CombinedFollows, Composition
  <1>1. CASE ~FinishFinal
    BY <1>1, OthersKeepCombined, WayToVerified DEF FindingsInv, CombinedFollows
  <1>2. CASE FinishFinal
    <2>1. /\ pc = "run" /\ root.phase = "final"
          /\ \/ pc' = "assemble" /\ combined' = WithoutGenerated(tree)
             \/ pc' = "handler"
      BY <1>2 DEF FinishFinal, Running
    <2>2. pc' # "handler"
      <3> SUFFICES ASSUME pc' = "handler" PROVE FALSE
        OBVIOUS
      <3>1. Accepted'
        BY DEF Verified, AcceptPlaces
      <3>2. Accepted \/ pc \in AcceptPlaces
        BY <3>1, AcceptedOnTheWay
      <3> QED BY <2>1, <3>2 DEF FindingsInv, AcceptedLate, AcceptPlaces
    <2>3. tree.patches = PatchesOf(Order)
      <3>1. root = Final
        BY <2>1 DEF TypeOK, Roots, PhaseA, At
      <3> QED BY <2>1, <3>1, ComposedAtFirst DEF TreeFollows
    <2>4. DOMAIN tree = {"patches", "dirt"} /\ tree.dirt \in {"none", "generated"}
      BY <2>1 DEF TypeOK, TreeOK, Dirt, ExceptionsFollow, Clear, TreeIsIntact
    <2>5. /\ WithoutGenerated(tree) = [tree EXCEPT !.dirt = "none"]
      BY <2>4 DEF WithoutGenerated
    <2>6. [tree EXCEPT !.dirt = "none"] = [patches |-> tree.patches, dirt |-> "none"]
      BY <2>4
    <2> QED BY <2>1, <2>2, <2>3, <2>5, <2>6 DEF Composition
  <1> QED BY <1>1, <1>2

(* The combined diff of an accepted run is the whole composition, and no   *)
(* generated file and no change a command made is in it.                   *)
THEOREM CombinedIsTheComposition == Spec => []CombinedIsComposed
  <1>1. Init => CombinedFollows
    <2>1. Init => ~Accepted
      BY DEF Init, Accepted, SaysAccepted, EmptyStore, NoRun
    <2> QED BY <2>1 DEF Init, CombinedFollows, Verified, AcceptPlaces
  <1>2. TypeOK /\ (ExceptionsFollow /\ WorktreesFollow) /\ EarnedInv /\ TreeFollows /\ FindingsInv
            /\ CombinedFollows /\ [Next]_vars => CombinedFollows'
    BY CombinedFollowsStep DEF EarnedInv
  <1>3. CombinedFollows => CombinedIsComposed
    BY DEF CombinedFollows, Verified, Composition, CombinedIsComposed
  <1> QED
    BY <1>1, <1>2, <1>3, TypeCorrect, PlacesInvariant, EarnedInvariant, TreeInvariant,
       FindingsInvariant, PTL DEF Spec

-----------------------------------------------------------------------------
(* The records on disk.  As long as no exception is in flight they are     *)
(* those of the roots that are done and of the items of the running one    *)
(* that are done.                                                          *)
Sound == pc \in Clear \ AcceptPlaces \/ (pc = "cleanup" /\ exc = NoException)

AtEnd == pc \in {"enter_b", "enter_c", "assemble", "cleanup", "close", "verify"}

(* Which steps are taken without an exception. *)
LEMMA SoundSteps ==
    ASSUME ExceptionsFollow, [Next]_vars, Sound'
    PROVE  \/ CreateRun /\ pc' = "preflight"
           \/ QualifyRuntime /\ pc' = "capture"
           \/ CaptureInputs /\ pc' = "open_baseline"
           \/ OpenBaseline
           \/ EnterPhaseA /\ pc' = "run"
           \/ (EnterPhaseB \/ EnterPhaseC) /\ pc' = "open"
           \/ OpenWorktree /\ pc' = "run"
           \/ CheckPasses \/ PatchApplies
           \/ (BeginApply \/ BeginVerify) /\ pc' = "run"
           \/ FinishBaseline /\ pc' = "enter_b"
           \/ FinishUnit /\ pc' = "cleanup"
           \/ (FinishStage \/ EnterFinal) /\ pc' = "run"
           \/ FinishFinal /\ pc' = "assemble"
           \/ AssembleEvidence /\ pc' = "cleanup"
           \/ (RemoveWorktree \/ FailWorktreeRemoval) /\ exc = NoException /\ exc' = NoException
           \/ Close /\ pc = "close"
           \/ UNCHANGED vars
  <1>0. /\ exc' = NoException /\ exc = NoException
        /\ pc' \in Clear \cup {"cleanup"} /\ pc' \notin AcceptPlaces
    <2>1. \/ pc' \in Clear /\ pc' \notin AcceptPlaces
          \/ pc' = "cleanup" /\ exc' = NoException
      BY DEF Sound
    <2>2. exc' = NoException
      <3>1. pc' \in Clear => exc' = NoException
        BY ExceptionsFollowStep DEF ExceptionsFollow
      <3> QED BY <2>1, <3>1
    <2>3. exc = NoException
      BY <2>2, ExceptionsStay
    <2>4. "cleanup" \notin AcceptPlaces
      BY DEF AcceptPlaces
    <2> QED BY <2>1, <2>2, <2>3, <2>4
  <1> USE DEF Clear, Early, Entering, AcceptPlaces
  <1>1. CASE Prepare
    BY <1>0, <1>1, ZenonT(60) DEF Prepare, RejectCampaign, CreateRun, QualifyRuntime, RejectRuntime,
       CaptureInputs, FailCapture, OpenBaseline, FailBaselineWorktree, Leave
  <1>2. CASE Enter
    BY <1>0, <1>2 DEF Enter, EnterPhaseA, EnterPhaseB, EnterPhaseC, OpenWorktree
  <1>3. CASE Command
    BY <1>0, <1>3, ExceptionsAreRaised DEF Command, CommandFails, ResultRejected, CheckRecordLost,
       Interrupt
  <1>4. CASE Patch
    BY <1>0, <1>4 DEF Patch, PatchFails, PatchRecordLost, BeginApply, BeginVerify, AdvanceStage, Running
  <1>5. CASE Finish
    BY <1>0, <1>5 DEF Finish, FinishBaseline, FinishUnit, FinishStage, EnterFinal, FinishFinal,
       RejectFindings, AssembleEvidence, Running
  <1>6. CASE FailPhase \/ PersistTerminalFailure
    BY <1>0, <1>6, ExceptionsAreRaised, FailedWriteIsRaised
       DEF FailPhase, PersistTerminalFailure, Leave, Silent
  <1>7. CASE Cleanup
    BY <1>0, <1>7 DEF Cleanup, Close, FailClose
  <1>8. CASE Accept
    BY <1>0, <1>8 DEF Accept, VerifyEvidence, RejectEvidence, WriteVerdict, WriteReport,
       PersistAccepted, RecordOutcome, SealAcceptance, AcceptanceWrite, WithdrawAcceptance
  <1>9. CASE Kill
    BY <1>0, <1>9 DEF Kill
  <1> QED BY <1>1, <1>2, <1>3, <1>4, <1>5, <1>6, <1>7, <1>8, <1>9 DEF Next, Step, Ended

(* How far the campaign has come where it is. *)
ProgressFollows ==
    Sound =>
      /\ step - 1 <= Len(ItemsOf[root])
      /\ AtEnd => step - 1 = Len(ItemsOf[root])
      /\ pc # "run" /\ ~AtEnd => step = 1
      /\ pc \in Early \cup {"enter_a", "enter_b"} => root = PhaseA
      /\ pc = "enter_c" => root = At("b", Len(Order))
      /\ pc \in {"assemble", "close", "verify"} => root = Final
      /\ pc = "cleanup" => root.phase = "b" \/ root = Final

(* A root is known by its phase and its number. *)
LEMMA RootsByPhase ==
    /\ \A r \in Roots :
          /\ Len(ItemsOf[r]) \in Nat
          /\ r.phase \in {"a", "b", "c", "final"}
          /\ r.phase = "a" => r = PhaseA
          /\ r.phase = "b" => r.n \in Stages /\ r = At("b", r.n)
          /\ r.phase = "c" => r.n \in Stages /\ r = At("c", r.n)
          /\ r.phase = "final" => r = Final
    /\ Len(Order) \in Nat /\ 1 \in Stages /\ Len(Order) \in Stages
    /\ \A n \in Stages : n \in Nat /\ 1 <= n /\ n <= Len(Order)
    /\ PhaseA \in Roots /\ Final \in Roots
    /\ \A n \in Stages : At("b", n) \in Roots /\ At("c", n) \in Roots
  <1>1. Len(Order) \in Nat \ {0}
    BY UnitsAreUnits
  <1>2. ASSUME NEW r \in Roots
        PROVE  Len(ItemsOf[r]) \in Nat /\ r.phase \in {"a", "b", "c", "final"}
    BY KindsOfRoots DEF Are
  <1>3. /\ 1 \in Stages /\ Len(Order) \in Stages /\ Len(Order) \in Nat
        /\ \A n \in Stages : n \in Nat /\ 1 <= n /\ n <= Len(Order)
    BY <1>1 DEF Stages
  <1>4. /\ PhaseA \in Roots /\ Final \in Roots
        /\ \A n \in Stages : At("b", n) \in Roots /\ At("c", n) \in Roots
    BY DEF Roots
  <1>5. ASSUME NEW r \in Roots
        PROVE  /\ r.phase = "a" => r = PhaseA
               /\ r.phase = "b" => r.n \in Stages /\ r = At("b", r.n)
               /\ r.phase = "c" => r.n \in Stages /\ r = At("c", r.n)
               /\ r.phase = "final" => r = Final
    BY <1>5 DEF Roots, PhaseA, Final, At
  <1> QED BY <1>2, <1>3, <1>4, <1>5

(* Every step goes as far as the loops do. *)
LEMMA ProgressFollowsStep ==
    ASSUME TypeOK, ExceptionsFollow, WorktreesFollow, LeavesFinal, TreeFollows, ProgressFollows,
           [Next]_vars
    PROVE  ProgressFollows'
  <1> SUFFICES ASSUME Sound'
               PROVE  /\ step' - 1 <= Len(ItemsOf[root'])
                      /\ AtEnd' => step' - 1 = Len(ItemsOf[root'])
                      /\ pc' # "run" /\ ~AtEnd' => step' = 1
                      /\ pc' \in Early \cup {"enter_a", "enter_b"} => root' = PhaseA
                      /\ pc' = "enter_c" => root' = At("b", Len(Order))
                      /\ pc' \in {"assemble", "close", "verify"} => root' = Final
                      /\ pc' = "cleanup" => root'.phase = "b" \/ root' = Final
    BY DEF ProgressFollows, AtEnd, Sound
  <1>0. /\ root \in Roots /\ step \in Nat \ {0} /\ root' \in Roots /\ step' \in Nat \ {0}
        /\ Len(ItemsOf[root]) \in Nat /\ Len(ItemsOf[root']) \in Nat
    <2>1. TypeOK'
      BY TypeOKStep
    <2>2. root \in Roots /\ step \in Nat \ {0} /\ root' \in Roots /\ step' \in Nat \ {0}
      BY <2>1 DEF TypeOK
    <2> QED BY <2>2, RootsByPhase
  <1> USE DEF Sound, AtEnd, Clear, Early, Entering, AcceptPlaces
  <1>1. CASE \/ CreateRun /\ pc' = "preflight"
             \/ QualifyRuntime /\ pc' = "capture"
             \/ CaptureInputs /\ pc' = "open_baseline"
             \/ OpenBaseline
    BY <1>0, <1>1 DEF ProgressFollows, CreateRun, QualifyRuntime, CaptureInputs, OpenBaseline, inputVars
  <1>2. CASE \/ EnterPhaseA /\ pc' = "run"
             \/ (EnterPhaseB \/ EnterPhaseC) /\ pc' = "open"
    <2>1. step' = 1 /\ pc' \in {"run", "open"}
      BY <1>2 DEF EnterPhaseA, EnterPhaseB, EnterPhaseC, Start
    <2> QED BY <1>0, <2>1
  <1>3. CASE OpenWorktree /\ pc' = "run"
    BY <1>0, <1>3 DEF ProgressFollows, OpenWorktree
  <1>4. CASE CheckPasses \/ PatchApplies
    <2>1. pc' = "run" /\ root' = root /\ step' = step + 1 /\ Unfinished
      BY <1>4 DEF CheckPasses, PatchApplies, AtCommand, AtPatch, commandVars
    <2> QED BY <1>0, <2>1 DEF Unfinished
  <1>5. CASE (BeginApply \/ BeginVerify) /\ pc' = "run"
    <2>1. pc = "run" /\ root' = root /\ step' = step
      BY <1>5 DEF BeginApply, BeginVerify, AdvanceStage, Running
    <2> QED BY <1>0, <1>5, <2>1 DEF ProgressFollows
  <1>6. CASE \/ FinishBaseline /\ pc' = "enter_b"
             \/ FinishUnit /\ pc' = "cleanup"
             \/ FinishFinal /\ pc' = "assemble"
    <2>1. /\ pc = "run" /\ ~Unfinished /\ root' = root /\ step' = step
          /\ \/ pc' = "enter_b" /\ root.phase = "a"
             \/ pc' = "cleanup" /\ root.phase = "b"
             \/ pc' = "assemble" /\ root.phase = "final"
      BY <1>6 DEF FinishBaseline, FinishUnit, FinishFinal, finishVars, Running
    <2>2. step - 1 = Len(ItemsOf[root])
      BY <1>0, <2>1 DEF ProgressFollows, Unfinished
    <2> QED BY <1>0, <2>1, <2>2, RootsByPhase
  <1>7. CASE (FinishStage \/ EnterFinal) /\ pc' = "run"
    <2>1. step' = 1
      BY <1>7 DEF FinishStage, EnterFinal
    <2> QED BY <1>0, <1>7, <2>1
  <1>8. CASE AssembleEvidence /\ pc' = "cleanup"
    <2>1. pc = "assemble" /\ root' = root /\ step' = step
      BY <1>8 DEF AssembleEvidence, finishVars
    <2> QED BY <1>0, <1>8, <2>1 DEF ProgressFollows
  <1>9. CASE (RemoveWorktree \/ FailWorktreeRemoval) /\ exc = NoException /\ exc' = NoException
    <2>1. pc = "cleanup" /\ pc' = After(NoException) /\ NextUnit
      BY <1>9 DEF RemoveWorktree, FailWorktreeRemoval
    <2>2. CASE pc' = "open"
      BY <1>0, <2>1, <2>2 DEF NextUnit, Start
    <2>3. CASE pc' # "open"
      <3>1. root' = root /\ step' = step /\ step - 1 = Len(ItemsOf[root])
        BY <1>9, <2>1, <2>3 DEF NextUnit, ProgressFollows
      <3>2. CASE root.phase = "b"
        <4>1. pc' = "enter_c" /\ ~(root.n < Len(Order))
          BY <2>1, <2>3, <3>2 DEF After
        <4>2. root.n = Len(Order) /\ root = At("b", root.n)
          BY <1>0, <3>2, <4>1, RootsByPhase
        <4> QED BY <3>1, <4>1, <4>2
      <3>3. CASE root.phase # "b"
        <4>1. pc' = "close" /\ root = Final
          BY <1>9, <2>1, <3>3 DEF After, ProgressFollows
        <4> QED BY <3>1, <4>1
      <3> QED BY <3>2, <3>3
    <2> QED BY <2>2, <2>3
  <1>10. CASE Close /\ pc = "close"
    BY <1>0, <1>10 DEF Close, ProgressFollows
  <1>11. CASE UNCHANGED vars
    BY <1>0, <1>11 DEF vars, ProgressFollows
  <1> HIDE DEF Sound, AtEnd, Clear, Early, Entering, AcceptPlaces
  <1> QED
    BY <1>1, <1>2, <1>3, <1>4, <1>5, <1>6, <1>7, <1>8, <1>9, <1>10, <1>11, SoundSteps

(* The roots in the order they are verified in.                            *)
Rank(r) ==
    CASE r.phase = "a"     -> 0
      [] r.phase = "b"     -> r.n
      [] r.phase = "c"     -> Len(Order) + r.n
      [] r.phase = "final" -> 2 * Len(Order) + 1

Past(r) == {q \in Roots : Rank(q) < Rank(r)}

(* The one after the other, from the first to the last. *)
LEMMA RanksOfRoots ==
    /\ Past(PhaseA) = {} /\ Past(Final) \cup {Final} = Roots
    /\ \A q \in Roots, r \in Roots : Rank(r) = Rank(q) + 1 => Past(r) = Past(q) \cup {q}
    /\ Rank(At("b", 1)) = Rank(PhaseA) + 1
    /\ Rank(At("c", 1)) = Rank(At("b", Len(Order))) + 1
    /\ Rank(Final) = Rank(At("c", Len(Order))) + 1
    /\ \A n \in Stages : /\ Rank(At("b", n + 1)) = Rank(At("b", n)) + 1
                         /\ Rank(At("c", n + 1)) = Rank(At("c", n)) + 1
    /\ \A r \in Roots : r \notin Past(r) /\ Rank(r) \in Nat
  <1>1. /\ Rank(PhaseA) = 0 /\ Rank(Final) = 2 * Len(Order) + 1
        /\ \A n : Rank(At("b", n)) = n /\ Rank(At("c", n)) = Len(Order) + n
    BY DEF Rank, At, PhaseA, Final
  <1>2. \A r \in Roots : \/ r = PhaseA \/ r = Final
                         \/ r.n \in Stages /\ (r = At("b", r.n) \/ r = At("c", r.n))
    BY RootsByPhase
  <1>3. /\ Len(Order) \in Nat /\ 1 \in Stages /\ Len(Order) \in Stages
        /\ \A n \in Stages : n \in Nat /\ 1 <= n /\ n <= Len(Order)
    BY RootsByPhase
  <1>4. \A r \in Roots : Rank(r) \in Nat /\ Rank(r) <= 2 * Len(Order) + 1
    BY <1>1, <1>2, <1>3
  <1>5. ASSUME NEW q \in Roots, NEW r \in Roots, Rank(q) = Rank(r)
        PROVE  q = r
    BY <1>1, <1>2, <1>3, <1>5
  <1>6. Past(PhaseA) = {}
    BY <1>1, <1>4 DEF Past
  <1>7. Past(Final) \cup {Final} = Roots
    <2>1. \A r \in Roots : Rank(r) < Rank(Final) \/ Rank(r) = Rank(Final)
      BY <1>1, <1>3, <1>4
    <2> QED BY <1>5, <2>1, RootsByPhase DEF Past
  <1>8. ASSUME NEW q \in Roots, NEW r \in Roots, Rank(r) = Rank(q) + 1
        PROVE  Past(r) = Past(q) \cup {q}
    <2>1. \A x \in Roots : Rank(x) < Rank(r) <=> Rank(x) < Rank(q) \/ Rank(x) = Rank(q)
      BY <1>4, <1>8
    <2> QED BY <1>5, <2>1 DEF Past
  <1>9. \A r \in Roots : r \notin Past(r)
    BY <1>4 DEF Past
  <1> QED BY <1>1, <1>3, <1>4, <1>6, <1>7, <1>8, <1>9

-----------------------------------------------------------------------------
(* What is on disk of the records.                                         *)
Cause(s) ==
    \E f \in s.files : \/ f.holds = "cleanup-failure" /\ f.root.phase = "b"
                       \/ f.holds = "record"

Recorded(fs) == {f \in fs : f.holds \in RecordKinds}

(* From s to t the files fs were added, and no manifest changed but those  *)
(* of R.                                                                   *)
Gains(s, t, R, fs) ==
    /\ StoreOK(t) /\ t.files = s.files \cup fs
    /\ \A r \in Roots \ R : t.manifest[r] = s.manifest[r]

(* One addition after the other is one of both. *)
LEMMA GainsTwice ==
    ASSUME NEW s, NEW t, NEW u, NEW R, NEW fs, NEW gs, Gains(s, t, R, fs), Gains(t, u, R, gs)
    PROVE  Gains(s, u, R, fs \cup gs)
  BY DEF Gains

(* Sealing the hashes adds nothing. *)
LEMMA GainsNothing ==
    ASSUME NEW s, StoreOK(s), NEW R
    PROVE  /\ Gains(s, s, R, {}) /\ Gains(s, Hashing(s), R, {})
           /\ Hashing(s).manifest = s.manifest /\ Hashing(s).run = s.run
           /\ Hashing(s).hashes.valid
  BY DEF Gains, StoreOK, Hashing

(* Nor does a new state. *)
LEMMA GainsByPersisting ==
    ASSUME NEW s, StoreOK(s), NEW R, NEW state \in RunStates
    PROVE  /\ Gains(s, Persisting(s, state), R, {})
           /\ Persisting(s, state).manifest = s.manifest
           /\ Persisting(s, state).run.state = state
  BY DEF Gains, StoreOK, Persisting, Recording, Run, TerminalStates, RunStates

(* A manifest that is written is complete, and the only one that changes. *)
LEMMA GainsByListing ==
    ASSUME NEW s, StoreOK(s), NEW r \in Roots
    PROVE  /\ Gains(s, Listing(s, r), {r}, {})
           /\ Listing(s, r).manifest[r] = "complete" /\ Listing(s, r).run = s.run
  BY DEF Gains, StoreOK, Listing

(* Files added below a root leave the other manifests alone. *)
LEMMA GainsByAdding ==
    ASSUME NEW s, StoreOK(s), NEW r \in Roots \cup {PhaseC, Inputs}, NEW fs,
           \A f \in fs : f.root = r /\ f.holds \in FilesHold /\ f.status \in Statuses
    PROVE  /\ Gains(s, Adding(s, fs), {r}, fs)
           /\ Adding(s, fs).run = s.run /\ Adding(s, fs).hashes.valid = s.hashes.valid
  <1>1. StoreOK(Adding(s, fs)) /\ Adding(s, fs).files = s.files \cup fs /\ Adding(s, fs).run = s.run
    BY AddingOK
  <1>2. \A q \in Roots \ {r} : Adding(s, fs).manifest[q] = s.manifest[q]
    BY DEF StoreOK, Adding
  <1>3. Adding(s, fs).hashes.valid = s.hashes.valid
    BY DEF StoreOK, Adding
  <1> QED BY <1>1, <1>2, <1>3 DEF Gains

(* What there is a reason to refuse stays one. *)
LEMMA CauseStays ==
    ASSUME NEW s, NEW t, NEW R, NEW fs, Gains(s, t, R, fs), ~Cause(t)
    PROVE  /\ ~Cause(s)
           /\ \A f \in fs : ~(f.holds = "cleanup-failure" /\ f.root.phase = "b") /\ f.holds # "record"
  BY DEF Gains, Cause

-----------------------------------------------------------------------------
(* The evidence of the roots before r, all of it, and that of r after its  *)
(* first n items and, at its end, what the end of a root adds.             *)
Marks(r, n, end) ==
    IF r # Final THEN {}
    ELSE {IntegrityOnly(0, "initial-integrity")}
           \cup (IF end THEN {IntegrityOnly(n + 1, "final-integrity")} ELSE {})

Due(r, n, end) ==
    (UNION {RootFiles(q, Len(ItemsOf[q])) : q \in Past(r)}) \cup RootFiles(r, n) \cup Marks(r, n, end)

Done(r, end) == Past(r) \cup (IF end THEN {r} ELSE {})

Sealed(s, r) ==
    /\ s.manifest[r] = "complete"
    /\ r # PhaseA => Single(r, "scan-comparison", "passed") \in s.files

Collected(s, r, n, end) ==
    /\ Recorded(s.files) = Due(r, n, end)
    /\ \A q \in Done(r, end) : Sealed(s, q)
    /\ end /\ r = Final => {Single(Final, "combined", "none"), Single(Final, "supplied-series", "none")}
                              \subseteq s.files

(* What counts as a record is kept and added up. *)
LEMMA RecordedTogether ==
    ASSUME NEW s, NEW t, NEW R, NEW fs, Gains(s, t, R, fs)
    PROVE  /\ Recorded(t.files) = Recorded(s.files) \cup Recorded(fs)
           /\ s.files \subseteq t.files /\ fs \subseteq t.files
           /\ \A r \in Roots \ R : Sealed(s, r) => Sealed(t, r)
  BY DEF Gains, Recorded, Sealed

(* The roots that are done are those before r and, at its end, r. *)
LEMMA DoneAreRoots ==
    ASSUME NEW r \in Roots
    PROVE  /\ \A end : Done(r, end) \subseteq Roots
           /\ Done(r, FALSE) = Past(r) /\ Done(r, TRUE) = Past(r) \cup {r} /\ r \notin Past(r)
  BY RanksOfRoots DEF Done, Past

(* Nothing that counts is added. *)
LEMMA CollectedStays ==
    ASSUME NEW s, NEW t, NEW r \in Roots, NEW n, NEW end \in BOOLEAN, Collected(s, r, n, end),
           NEW R, NEW fs, Gains(s, t, R, fs), Recorded(fs) = {},
           \A q \in R \cap Done(r, end) : Sealed(t, q)
    PROVE  Collected(t, r, n, end)
  <1>1. /\ Recorded(t.files) = Recorded(s.files)
        /\ s.files \subseteq t.files
        /\ \A q \in Roots \ R : Sealed(s, q) => Sealed(t, q)
    BY RecordedTogether
  <1>2. \A q \in Done(r, end) : Sealed(t, q)
    BY <1>1, DoneAreRoots DEF Collected
  <1> QED BY <1>1, <1>2 DEF Collected

(* One item more. *)
LEMMA CollectedMore ==
    ASSUME NEW s, NEW t, NEW r \in Roots, NEW n \in Nat, Collected(s, r, n, FALSE),
           NEW fs, Gains(s, t, {r}, fs), Recorded(fs) = ItemFiles(r, n + 1, ItemsOf[r][n + 1])
    PROVE  Collected(t, r, n + 1, FALSE)
  <1>1. /\ Recorded(t.files) = Recorded(s.files) \cup Recorded(fs)
        /\ \A q \in Roots \ {r} : Sealed(s, q) => Sealed(t, q)
    BY RecordedTogether
  <1>2. \A q \in Done(r, FALSE) : Sealed(t, q)
    BY <1>1, DoneAreRoots DEF Collected
  <1>3. RootFiles(r, n + 1) = RootFiles(r, n) \cup ItemFiles(r, n + 1, ItemsOf[r][n + 1])
    <2>1. 1..(n + 1) = 1..n \cup {n + 1}
      OBVIOUS
    <2> DEFINE at(j) == ItemFiles(r, j, ItemsOf[r][j])
    <2> HIDE DEF at
    <2>2. (UNION {at(j) : j \in 1..(n + 1)}) = (UNION {at(j) : j \in 1..n}) \cup at(n + 1)
      BY <2>1
    <2> QED BY <2>2 DEF at, RootFiles
  <1>4. Marks(r, n + 1, FALSE) = Marks(r, n, FALSE)
    BY DEF Marks
  <1>5. Recorded(t.files) = Due(r, n + 1, FALSE)
    BY <1>1, <1>3, <1>4 DEF Collected, Due
  <1> QED BY <1>2, <1>5 DEF Collected

(* The end of a root. *)
LEMMA CollectedAtEnd ==
    ASSUME NEW s, NEW t, NEW r \in Roots, NEW n, Collected(s, r, n, FALSE),
           NEW fs, Gains(s, t, {r}, fs), Sealed(t, r),
           Recorded(fs) = IF r = Final THEN {IntegrityOnly(n + 1, "final-integrity")} ELSE {},
           r = Final => {Single(Final, "combined", "none"), Single(Final, "supplied-series", "none")}
                           \subseteq t.files
    PROVE  Collected(t, r, n, TRUE)
  <1>1. /\ Recorded(t.files) = Recorded(s.files) \cup Recorded(fs)
        /\ \A q \in Roots \ {r} : Sealed(s, q) => Sealed(t, q)
    BY RecordedTogether
  <1>2. \A q \in Done(r, TRUE) : Sealed(t, q)
    <2>1. \A q \in Past(r) : q \in Roots \ {r} /\ Sealed(s, q)
      <3>1. Past(r) \subseteq Roots \ {r} /\ Done(r, FALSE) = Past(r)
        BY DoneAreRoots
      <3> QED BY <3>1 DEF Collected
    <2>2. Done(r, TRUE) = Past(r) \cup {r}
      BY DoneAreRoots
    <2> QED BY <1>1, <2>1, <2>2
  <1>3. Marks(r, n, TRUE) = Marks(r, n, FALSE) \cup Recorded(fs)
    BY DEF Marks
  <1>4. Recorded(t.files) = Due(r, n, TRUE)
    BY <1>1, <1>3 DEF Collected, Due
  <1> QED BY <1>2, <1>4 DEF Collected

(* From a root to the one after it. *)
LEMMA CollectedGoesOn ==
    ASSUME NEW s, NEW t, NEW r \in Roots, NEW q \in Roots, Rank(q) = Rank(r) + 1,
           Collected(s, r, Len(ItemsOf[r]), TRUE),
           NEW R, NEW fs, Gains(s, t, R, fs), R \cap (Past(r) \cup {r}) = {},
           Recorded(fs) = IF q = Final THEN {IntegrityOnly(0, "initial-integrity")} ELSE {}
    PROVE  Collected(t, q, 0, FALSE)
  <1>1. /\ Recorded(t.files) = Recorded(s.files) \cup Recorded(fs)
        /\ \A x \in Roots \ R : Sealed(s, x) => Sealed(t, x)
    BY RecordedTogether
  <1>2. Past(q) = Past(r) \cup {r} /\ r # Final
    <2>1. Past(q) = Past(r) \cup {r}
      BY RanksOfRoots
    <2>2. q \notin Past(q)
      BY RanksOfRoots
    <2>3. r = Final => q \in Past(r) \cup {r}
      BY RanksOfRoots
    <2> QED BY <2>1, <2>2, <2>3
  <1>3. \A x \in Done(q, FALSE) : Sealed(t, x)
    BY <1>1, <1>2, DoneAreRoots DEF Collected
  <1> DEFINE all(x) == RootFiles(x, Len(ItemsOf[x]))
  <1>4. (UNION {all(x) : x \in Past(q)}) = (UNION {all(x) : x \in Past(r)}) \cup all(r)
    <2> HIDE DEF all
    <2> QED BY <1>2
  <1>5. RootFiles(q, 0) = {}
    BY DEF RootFiles
  <1>6. Marks(q, 0, FALSE) = Recorded(fs) /\ Marks(r, Len(ItemsOf[r]), TRUE) = {}
    BY <1>2 DEF Marks
  <1>7. Recorded(s.files) = (UNION {all(x) : x \in Past(r)}) \cup all(r)
    BY <1>6 DEF Collected, Due
  <1>8. Due(q, 0, FALSE) = (UNION {all(x) : x \in Past(q)}) \cup Recorded(fs)
    BY <1>5, <1>6 DEF Due
  <1>9. Recorded(t.files) = Due(q, 0, FALSE)
    BY <1>1, <1>4, <1>7, <1>8
  <1> QED BY <1>3, <1>9 DEF Collected

(* At the end of the last root it is all that _verify_final_evidence       *)
(* expects.                                                                *)
LEMMA CollectedIsComplete ==
    ASSUME NEW s, Collected(s, Final, Len(ItemsOf[Final]), TRUE),
           Single(Inputs, "inputs", "passed") \in s.files
    PROVE  EvidenceComplete(s)
  <1>1. Final \in Roots /\ ItemsOf[Final] = FinalItems
    BY DEF Roots, Final, At, ItemsOf
  <1>2. Past(Final) \cup {Final} = Roots /\ Done(Final, TRUE) = Roots
    BY <1>1, RanksOfRoots, DoneAreRoots
  <1> DEFINE all(x) == RootFiles(x, Len(ItemsOf[x]))
  <1>3. (UNION {all(x) : x \in Roots}) = (UNION {all(x) : x \in Past(Final)}) \cup all(Final)
    <2> HIDE DEF all
    <2> QED BY <1>2
  <1>4. Marks(Final, Len(ItemsOf[Final]), TRUE) = FinalMarks
    BY <1>1 DEF Marks, FinalMarks
  <1>5. Recorded(s.files) = ExpectedFiles
    BY <1>3, <1>4, RecordsExpected DEF Collected, Due
  <1>6. \A r \in Roots : Sealed(s, r)
    BY <1>2 DEF Collected
  <1> QED BY <1>5, <1>6 DEF EvidenceComplete, Collected, Recorded, Sealed

-----------------------------------------------------------------------------
(* Writes that all succeed end in the last of the stores. *)
LEMMA WritesEnd ==
    /\ \A a : Writes(<<a>>) => store' = a
    /\ \A a, b : Writes(<<a, b>>) => store' = b
    /\ \A a, b, c : Writes(<<a, b, c>>) => store' = c
    /\ \A a, b, c, d : Writes(<<a, b, c, d>>) => store' = d
    /\ \A a, b, c, d, e : Writes(<<a, b, c, d, e>>) => store' = e
    /\ \A a, b, c, d, e, f : Writes(<<a, b, c, d, e, f>>) => store' = f
  BY DEF Writes

(* The evidence where the campaign is, unless there is a reason to refuse  *)
(* it.                                                                     *)
Evidence ==
    /\ AtEnd => Collected(store, root, step - 1, TRUE)
    /\ ~AtEnd => Collected(store, root, step - 1, FALSE)
    /\ pc \notin {"start", "preflight", "capture"} => Single(Inputs, "inputs", "passed") \in store.files
    /\ pc \in {"cleanup", "close", "verify"} /\ root = Final
          => store.run.state = "assembling_evidence" /\ store.hashes.valid

EvidenceFollows == Sound /\ ~Cause(store) => Evidence

(* The files a root has one of, and those of an item, among the records. *)
LEMMA RecordsAmong ==
    /\ Recorded({}) = {}
    /\ \A r, holds, status : Single(r, holds, status).root = r
                             /\ Single(r, holds, status).holds = holds
                             /\ Single(r, holds, status).status = status
    /\ \A r, holds, status :
          holds \notin RecordKinds => Recorded({Single(r, holds, status)}) = {}
    /\ \A fs, gs : Recorded(fs \cup gs) = Recorded(fs) \cup Recorded(gs)
    /\ \A n, holds : holds \in {"initial-integrity", "final-integrity"} =>
          /\ Recorded({IntegrityOnly(n, holds)}) = {IntegrityOnly(n, holds)}
          /\ IntegrityOnly(n, holds).root = Final /\ IntegrityOnly(n, holds).status = "passed"
          /\ IntegrityOnly(n, holds).holds = holds
    /\ \A r, n, item : /\ Recorded(ItemFiles(r, n, item)) = ItemFiles(r, n, item)
                       /\ \A f \in ItemFiles(r, n, item) : /\ f.root = r /\ f.status = "passed"
                                                           /\ f.holds \in {"check", "integrity", "result", "patch"}
  <1>1. \A r, holds, status : Single(r, holds, status).root = r
                             /\ Single(r, holds, status).holds = holds
                             /\ Single(r, holds, status).status = status
    BY DEF Single, File
  <1>2. \A n, holds : /\ IntegrityOnly(n, holds).root = Final /\ IntegrityOnly(n, holds).status = "passed"
                      /\ IntegrityOnly(n, holds).holds = holds
    BY DEF IntegrityOnly, File
  <1>3. \A r, n, item : \A f \in ItemFiles(r, n, item) :
            f.root = r /\ f.status = "passed" /\ f.holds \in {"check", "integrity", "result", "patch"}
    BY DEF ItemFiles, PatchFile, CommandFiles, CheckFile, IntegrityFile, ResultFiles, File
  <1>4. {"check", "integrity", "result", "patch", "initial-integrity", "final-integrity"} \subseteq RecordKinds
    BY DEF RecordKinds
  <1> QED BY <1>1, <1>2, <1>3, <1>4 DEF Recorded

(* What is left in an output directory counts for nothing, unless it looks *)
(* like a record.                                                          *)
LEMMA LeftCountsNot ==
    ASSUME NEW r \in Roots \cup {PhaseC, Inputs}, NEW kinds \in SUBSET {"record", "link"},
           NEW left \in Left(r, kinds)
    PROVE  /\ \A f \in left : f.root = r /\ f.holds \in FilesHold /\ f.status \in Statuses
           /\ (\A f \in left : f.holds # "record") => Recorded(left) = {}
  <1>1. left = {} \/ \E k \in kinds : left = {Single(r, k, "none")}
    BY DEF Left
  <1>2. "link" \notin RecordKinds /\ {"record", "link"} \subseteq FilesHold /\ "none" \in Statuses
    BY DEF RecordKinds, FilesHold, Statuses
  <1>3. CASE left = {}
    BY <1>3, RecordsAmong
  <1>4. CASE left # {}
    <2>1. PICK k \in kinds : left = {Single(r, k, "none")}
      BY <1>1, <1>4
    <2>2. k \in {"record", "link"}
      OBVIOUS
    <2> QED BY <1>2, <2>1, <2>2, RecordsAmong
  <1> QED BY <1>3, <1>4

(* Where the campaign can be is told apart by the phase, and what a root   *)
(* has one of by what it holds.                                            *)
LEMMA WhatIsWritten ==
    /\ Inputs \notin Roots /\ PhaseC \notin Roots /\ Final \in Roots /\ Final.phase = "final"
    /\ PhaseA.phase = "a" /\ PhaseA \in Roots /\ PhaseC.phase = "c" /\ Final # PhaseA
    /\ "passed" \in Statuses /\ "failed" \in Statuses /\ "none" \in Statuses
    /\ {"inputs", "scan-comparison", "combined", "supplied-series", "verdict-prep", "cleanup-failure",
        "initial-integrity", "final-integrity", "check", "integrity", "result", "patch"} \subseteq FilesHold
    /\ {"inputs", "scan-comparison", "combined", "supplied-series", "verdict-prep", "cleanup-failure"}
          \cap RecordKinds = {}
    /\ {"preflight", "capturing_inputs", "phase_a_baseline", "phase_b_isolated", "phase_c_preapply",
        "phase_c_apply", "phase_c_verify", "final_verification", "assembling_evidence"} \subseteq RunStates
  <1>1. /\ Inputs \notin Roots /\ PhaseC \notin Roots /\ Final \in Roots /\ Final.phase = "final"
        /\ PhaseA.phase = "a" /\ PhaseA \in Roots /\ PhaseC.phase = "c" /\ Final # PhaseA
    <2>1. \A r \in Roots : r.phase \in {"a", "b", "c", "final"} /\ (r.phase = "c" => r.n >= 1)
      BY RootsByPhase
    <2>2. Inputs.phase = "input" /\ PhaseC.phase = "c" /\ PhaseC.n = 0
      BY DEF Inputs, PhaseC, At
    <2> QED BY <2>1, <2>2, RootsByPhase DEF Final, PhaseA, At
  <1>2. /\ "passed" \in Statuses /\ "failed" \in Statuses /\ "none" \in Statuses
        /\ {"inputs", "scan-comparison", "combined", "supplied-series", "verdict-prep", "cleanup-failure",
            "initial-integrity", "final-integrity", "check", "integrity", "result", "patch"} \subseteq FilesHold
    BY DEF Statuses, FilesHold
  <1>3. {"inputs", "scan-comparison", "combined", "supplied-series", "verdict-prep", "cleanup-failure"}
          \cap RecordKinds = {}
    BY DEF RecordKinds
  <1>4. {"preflight", "capturing_inputs", "phase_a_baseline", "phase_b_isolated", "phase_c_preapply",
        "phase_c_apply", "phase_c_verify", "final_verification", "assembling_evidence"} \subseteq RunStates
    BY DEF RunStates, ActiveStates
  <1> QED BY <1>1, <1>2, <1>3, <1>4

-----------------------------------------------------------------------------
(* Preflight captures the inputs and records nothing. *)
LEMMA EvidenceAtFirst ==
    ASSUME TypeOK, EvidenceFollows, ~Cause(store'),
           \/ CreateRun /\ pc' = "preflight"
           \/ QualifyRuntime /\ pc' = "capture"
           \/ CaptureInputs /\ pc' = "open_baseline"
           \/ OpenBaseline
    PROVE  Evidence'
  <1>0. StoreOK(store) /\ root \in Roots
    BY DEF TypeOK
  <1>1. /\ pc \in Early /\ ~AtEnd /\ ~AtEnd' /\ Sound /\ UNCHANGED <<root, step>>
        /\ pc' \notin {"cleanup", "close", "verify"}
    BY DEF CreateRun, QualifyRuntime, CaptureInputs, OpenBaseline, inputVars, AtEnd, Sound, Clear, Early,
       AcceptPlaces
  <1>2. CASE ~(CaptureInputs /\ pc' = "open_baseline")
    <2>1. Gains(store, store', {}, {})
      <3>1. CASE OpenBaseline
        BY <1>0, <3>1, GainsNothing DEF OpenBaseline
      <3>2. CASE CreateRun /\ pc' = "preflight"
        <4>1. store' = Persisting(store, "preflight")
          BY <3>2, WritesEnd DEF CreateRun, Leave
        <4> QED BY <1>0, <4>1, WhatIsWritten, GainsByPersisting
      <3>3. CASE QualifyRuntime /\ pc' = "capture"
        <4>1. store' = Persisting(store, "capturing_inputs")
          BY <3>3, WritesEnd DEF QualifyRuntime, Leave
        <4> QED BY <1>0, <4>1, WhatIsWritten, GainsByPersisting
      <3> QED BY <1>2, <3>1, <3>2, <3>3
    <2>2. Evidence
      BY <1>1, <2>1, CauseStays DEF EvidenceFollows
    <2>3. Collected(store, root, step - 1, FALSE)
      BY <1>1, <2>2 DEF Evidence
    <2>4. Collected(store', root, step - 1, FALSE)
      BY <1>0, <2>1, <2>3, RecordsAmong, CollectedStays
    <2>5. pc' \notin {"start", "preflight", "capture"} => Single(Inputs, "inputs", "passed") \in store'.files
      <3>1. pc' \notin {"start", "preflight", "capture"} => OpenBaseline
        BY <1>2
      <3>2. OpenBaseline => pc = "open_baseline" /\ store' = store
        BY DEF OpenBaseline
      <3> QED BY <2>2, <3>1, <3>2 DEF Evidence
    <2> QED BY <1>1, <2>4, <2>5 DEF Evidence
  <1>3. CASE CaptureInputs /\ pc' = "open_baseline"
    <2>1. PICK left \in Left(Inputs, Leavings \cap {"record"}) :
             store' = Hashing(Persisting(Adding(store, {Single(Inputs, "inputs", "passed")} \cup left),
                                         "phase_a_baseline"))
      BY <1>3, WritesEnd DEF CaptureInputs, Leave
    <2> DEFINE fs == {Single(Inputs, "inputs", "passed")} \cup left
               s1 == Adding(store, fs)
               s2 == Persisting(s1, "phase_a_baseline")
    <2>2. /\ \A f \in left : f.root = Inputs /\ f.holds \in FilesHold /\ f.status \in Statuses
          /\ (\A f \in left : f.holds # "record") => Recorded(left) = {}
      BY LeftCountsNot
    <2>3. \A f \in fs : f.root = Inputs /\ f.holds \in FilesHold /\ f.status \in Statuses
      BY <2>2, WhatIsWritten, RecordsAmong
    <2> HIDE DEF fs
    <2>4. Gains(store, s1, {Inputs}, fs)
      BY <1>0, <2>3, WhatIsWritten, GainsByAdding
    <2> HIDE DEF s1
    <2>5. Gains(s1, s2, {Inputs}, {})
      BY <2>4, WhatIsWritten, GainsByPersisting DEF Gains
    <2> HIDE DEF s2
    <2>6. Gains(s2, store', {Inputs}, {})
      BY <2>1, <2>5, GainsNothing DEF Gains, fs, s1, s2
    <2>7. Gains(store, store', {Inputs}, fs)
      BY <2>4, <2>5, <2>6, GainsTwice DEF Gains
    <2>8. ~Cause(store) /\ \A f \in fs : f.holds # "record"
      BY <2>7, CauseStays
    <2>9. Collected(store, root, step - 1, FALSE)
      BY <1>1, <2>8 DEF Evidence, EvidenceFollows
    <2>10. Recorded(fs) = {}
      <3>1. Recorded({Single(Inputs, "inputs", "passed")}) = {}
        BY WhatIsWritten, RecordsAmong
      <3>2. Recorded(left) = {}
        BY <2>2, <2>8 DEF fs
      <3> QED BY <3>1, <3>2, RecordsAmong DEF fs
    <2>11. Collected(store', root, step - 1, FALSE)
      <3>1. {Inputs} \cap Done(root, FALSE) = {}
        BY <1>0, WhatIsWritten, DoneAreRoots
      <3> QED BY <1>0, <2>7, <2>9, <2>10, <3>1, CollectedStays
    <2>12. Single(Inputs, "inputs", "passed") \in store'.files
      BY <2>7, RecordedTogether DEF fs
    <2> QED BY <1>1, <2>11, <2>12 DEF Evidence
  <1> QED BY <1>2, <1>3

(* Where no check runs and nothing ends, nothing is recorded. *)
LEMMA EvidenceStays ==
    ASSUME TypeOK, ProgressFollows, EvidenceFollows, ~Cause(store'),
           \/ OpenWorktree /\ pc' = "run"
           \/ (BeginApply \/ BeginVerify) /\ pc' = "run"
           \/ Close /\ pc = "close"
           \/ Sound /\ UNCHANGED vars
    PROVE  Evidence'
  <1>0. StoreOK(store) /\ root \in Roots
    BY DEF TypeOK
  <1>1. /\ Sound /\ UNCHANGED <<root, step>> /\ AtEnd' = AtEnd
        /\ Gains(store, store', {}, {}) /\ (pc \in {"start", "preflight", "capture"} => pc' = pc)
        /\ pc' \in {"cleanup", "close", "verify"} => UNCHANGED store /\ pc \in {"cleanup", "close", "verify"}
    <2>1. CASE OpenWorktree /\ pc' = "run"
      BY <1>0, <2>1, GainsNothing DEF OpenWorktree, Sound, Clear, Entering, AcceptPlaces, AtEnd
    <2>2. CASE (BeginApply \/ BeginVerify) /\ pc' = "run"
      <3>1. PICK target \in {"phase_c_apply", "phase_c_verify"} :
                 /\ pc = "run" /\ UNCHANGED <<root, step, pc>>
                 /\ store' = Persisting(store, target)
        BY <2>2, WritesEnd DEF BeginApply, BeginVerify, AdvanceStage, Running
      <3>2. Gains(store, store', {}, {})
        BY <1>0, <3>1, WhatIsWritten, GainsByPersisting
      <3> QED BY <2>2, <3>1, <3>2 DEF Sound, Clear, AcceptPlaces, AtEnd
    <2>3. CASE Close /\ pc = "close"
      BY <1>0, <2>3, GainsNothing DEF Close, Sound, Clear, AcceptPlaces, AtEnd
    <2>4. CASE Sound /\ UNCHANGED vars
      BY <1>0, <2>4, GainsNothing DEF vars, AtEnd
    <2> QED BY <2>1, <2>2, <2>3, <2>4
  <1>2. Evidence
    BY <1>1, CauseStays DEF EvidenceFollows
  <1>3. /\ AtEnd => Collected(store', root, step - 1, TRUE)
        /\ ~AtEnd => Collected(store', root, step - 1, FALSE)
    BY <1>0, <1>1, <1>2, RecordsAmong, CollectedStays, ZenonT(60) DEF Evidence
  <1>4. store.files \subseteq store'.files
    BY <1>1, RecordedTogether
  <1> QED BY <1>1, <1>2, <1>3, <1>4 DEF Evidence

(* A check that passes and a patch that applies leave what is wanted of    *)
(* the item.                                                               *)
LEMMA EvidenceOfItem ==
    ASSUME TypeOK, ProgressFollows, EvidenceFollows, ~Cause(store'), CheckPasses \/ PatchApplies
    PROVE  Evidence'
  <1>0. StoreOK(store) /\ root \in Roots /\ step - 1 \in Nat /\ (step - 1) + 1 = step
    BY DEF TypeOK
  <1>1. /\ pc = "run" /\ pc' = "run" /\ root' = root /\ step' = step + 1 /\ Unfinished
        /\ Sound /\ ~AtEnd /\ ~AtEnd'
    BY DEF CheckPasses, PatchApplies, AtCommand, AtPatch, commandVars, Sound, Clear, AcceptPlaces, AtEnd
  <1>2. PICK left \in Left(root, Leavings) \cup {{}} :
           store' = Adding(store, ItemFiles(root, step, Item) \cup left)
    <2>1. CASE CheckPasses
      BY <2>1 DEF CheckPasses, AtCommand, Leaves, ItemFiles
    <2>2. CASE PatchApplies
      BY <2>2 DEF PatchApplies, AtPatch, ItemFiles
    <2> QED BY <2>1, <2>2
  <1>3. /\ \A f \in left : f.root = root /\ f.holds \in FilesHold /\ f.status \in Statuses
        /\ (\A f \in left : f.holds # "record") => Recorded(left) = {}
    <2>1. CASE left = {}
      BY <2>1, RecordsAmong
    <2>2. CASE left \in Left(root, Leavings)
      BY <1>0, <2>2, PolicyIsValid, LeftCountsNot
    <2> QED BY <2>1, <2>2
  <1> DEFINE fs == ItemFiles(root, step, Item) \cup left
  <1>4. \A f \in fs : f.root = root /\ f.holds \in FilesHold /\ f.status \in Statuses
    BY <1>3, RecordsAmong, WhatIsWritten
  <1>5. Gains(store, store', {root}, fs)
    <2> HIDE DEF fs
    <2> QED BY <1>0, <1>2, <1>4, GainsByAdding DEF fs
  <1>6. ~Cause(store) /\ Recorded(left) = {}
    BY <1>3, <1>5, CauseStays
  <1>7. Recorded(fs) = ItemFiles(root, step, Item)
    <2>1. Recorded(ItemFiles(root, step, Item)) = ItemFiles(root, step, Item)
      BY RecordsAmong
    <2>2. Recorded(fs) = Recorded(ItemFiles(root, step, Item)) \cup Recorded(left)
      BY DEF Recorded
    <2> QED BY <1>6, <2>1, <2>2
  <1> HIDE DEF fs
  <1>8. Evidence
    BY <1>1, <1>6 DEF EvidenceFollows
  <1>9. Collected(store', root, (step - 1) + 1, FALSE)
    BY <1>0, <1>1, <1>5, <1>7, <1>8, CollectedMore DEF Evidence, Item
  <1>10. Single(Inputs, "inputs", "passed") \in store'.files
    BY <1>1, <1>5, <1>8, RecordedTogether DEF Evidence
  <1>11. step' - 1 = (step - 1) + 1
    BY <1>0, <1>1
  <1> QED BY <1>1, <1>9, <1>10, <1>11 DEF Evidence

(* A root is sealed by its manifest and the comparison of its scans. *)
LEMMA ListingSeals ==
    ASSUME NEW s, StoreOK(s), NEW r \in Roots,
           r # PhaseA => Single(r, "scan-comparison", "passed") \in s.files
    PROVE  /\ Gains(s, Hashing(Listing(s, r)), {r}, {}) /\ Sealed(Hashing(Listing(s, r)), r)
           /\ Hashing(Listing(s, r)).run = s.run /\ Hashing(Listing(s, r)).hashes.valid
  <1> DEFINE listed == Listing(s, r)
  <1>1. Gains(s, listed, {r}, {}) /\ listed.manifest[r] = "complete" /\ listed.run = s.run
    BY GainsByListing
  <1> HIDE DEF listed
  <1>2. /\ Gains(listed, Hashing(listed), {r}, {}) /\ Hashing(listed).manifest = listed.manifest
        /\ Hashing(listed).run = listed.run /\ Hashing(listed).hashes.valid
    BY <1>1, GainsNothing DEF Gains
  <1>3. Gains(s, Hashing(listed), {r}, {})
    BY <1>1, <1>2, GainsTwice
  <1>4. Hashing(listed).files = s.files
    BY <1>3 DEF Gains
  <1>5. Sealed(Hashing(listed), r)
    BY <1>1, <1>2, <1>4 DEF Sealed
  <1> QED BY <1>1, <1>2, <1>3, <1>5 DEF listed

(* The comparison alone is no record. *)
LEMMA ComparedPasses ==
    ASSUME TypeOK
    PROVE  LET scan == Single(root, "scan-comparison", "passed")
           IN  /\ Gains(store, Compared("passed"), {root}, {scan}) /\ Recorded({scan}) = {}
               /\ scan \in Compared("passed").files /\ StoreOK(Compared("passed"))
  <1> DEFINE scan == Single(root, "scan-comparison", "passed")
             fs == {scan}
  <1>1. \A f \in fs : f.root = root /\ f.holds \in FilesHold /\ f.status \in Statuses
    BY RecordsAmong, WhatIsWritten
  <1>2. Recorded(fs) = {}
    BY RecordsAmong, WhatIsWritten
  <1> HIDE DEF fs
  <1>3. Gains(store, Adding(store, fs), {root}, fs)
    BY <1>1, GainsByAdding DEF TypeOK
  <1>4. Compared("passed") = Adding(store, fs)
    BY DEF Compared, fs
  <1>5. scan \in Compared("passed").files /\ StoreOK(Compared("passed"))
    BY <1>3, <1>4 DEF Gains, fs
  <1> QED BY <1>2, <1>3, <1>4, <1>5 DEF fs

(* Where a root other than the last is at its end. *)
LEMMA StageEnds ==
    ASSUME TypeOK, ProgressFollows, EvidenceFollows, pc = "run", ~Unfinished, root # Final,
           NEW s, Gains(store, s, {root}, IF root = PhaseA THEN {}
                                          ELSE {Single(root, "scan-comparison", "passed")}),
           Sealed(s, root), ~Cause(s)
    PROVE  /\ Collected(s, root, step - 1, TRUE) /\ step - 1 = Len(ItemsOf[root])
           /\ Single(Inputs, "inputs", "passed") \in s.files
  <1>0. StoreOK(store) /\ root \in Roots /\ step \in Nat \ {0} /\ Len(ItemsOf[root]) \in Nat
    BY RootsByPhase DEF TypeOK
  <1>1. Sound /\ ~AtEnd
    BY DEF Sound, Clear, AcceptPlaces, AtEnd
  <1>2. step - 1 = Len(ItemsOf[root])
    <2>1. step - 1 <= Len(ItemsOf[root]) /\ ~(step <= Len(ItemsOf[root]))
      BY <1>1 DEF ProgressFollows, Unfinished
    <2> QED BY <1>0, <2>1
  <1> DEFINE fs == IF root = PhaseA THEN {} ELSE {Single(root, "scan-comparison", "passed")}
  <1>3. Recorded(fs) = {}
    BY RecordsAmong, WhatIsWritten
  <1> HIDE DEF fs
  <1>4. Gains(store, s, {root}, fs)
    BY DEF fs
  <1>5. Evidence
    BY <1>1, <1>4, CauseStays DEF EvidenceFollows
  <1>6. Collected(store, root, step - 1, FALSE)
    BY <1>1, <1>5 DEF Evidence
  <1>7. Collected(s, root, step - 1, TRUE)
    BY <1>0, <1>3, <1>4, <1>6, CollectedAtEnd
  <1>8. Single(Inputs, "inputs", "passed") \in s.files
    BY <1>4, <1>5, RecordedTogether DEF Evidence
  <1> QED BY <1>2, <1>7, <1>8

(* The baseline and the units alone. *)
LEMMA EvidenceOfUnit ==
    ASSUME TypeOK, ProgressFollows, EvidenceFollows, ~Cause(store'),
           \/ FinishBaseline /\ pc' = "enter_b"
           \/ FinishUnit /\ pc' = "cleanup"
    PROVE  Evidence'
  <1>0. StoreOK(store) /\ root \in Roots
    BY DEF TypeOK
  <1>1. /\ pc = "run" /\ ~Unfinished /\ UNCHANGED <<root, step>> /\ root # Final
        /\ AtEnd' /\ pc' \notin {"start", "preflight", "capture"}
    BY WhatIsWritten DEF FinishBaseline, FinishUnit, Running, finishVars, AtEnd
  <1>2. CASE FinishBaseline /\ pc' = "enter_b"
    <2>1. store' = Hashing(Listing(store, root)) /\ root = PhaseA
      BY <1>0, <1>2, WritesEnd, RootsByPhase DEF FinishBaseline, Running
    <2>2. Gains(store, store', {root}, {}) /\ Sealed(store', root)
      BY <1>0, <2>1, ListingSeals
    <2>3. Collected(store', root, step - 1, TRUE) /\ Single(Inputs, "inputs", "passed") \in store'.files
      BY <1>1, <2>1, <2>2, StageEnds
    <2> QED BY <1>1, <2>3 DEF Evidence
  <1>3. CASE FinishUnit /\ pc' = "cleanup"
    <2>1. store' = Hashing(Listing(Compared("passed"), root)) /\ root # PhaseA
      BY <1>3, WritesEnd, WhatIsWritten DEF FinishUnit, Running
    <2> DEFINE scan == Single(root, "scan-comparison", "passed")
    <2>2. /\ Gains(store, Compared("passed"), {root}, {scan})
          /\ scan \in Compared("passed").files /\ StoreOK(Compared("passed"))
      BY ComparedPasses
    <2>3. Gains(Compared("passed"), store', {root}, {}) /\ Sealed(store', root)
      BY <1>0, <2>1, <2>2, ListingSeals
    <2>4. Gains(store, store', {root}, {scan})
      BY <2>2, <2>3 DEF Gains
    <2>5. Collected(store', root, step - 1, TRUE) /\ Single(Inputs, "inputs", "passed") \in store'.files
      BY <1>1, <2>1, <2>3, <2>4, StageEnds
    <2> QED BY <1>1, <2>5 DEF Evidence
  <1> QED BY <1>2, <1>3

(* The phases and the next unit begin with what the root before has left. *)
LEMMA EvidenceOfPhase ==
    ASSUME TypeOK, ProgressFollows, EvidenceFollows, ~Cause(store'),
           \/ EnterPhaseA /\ pc' = "run"
           \/ (EnterPhaseB \/ EnterPhaseC) /\ pc' = "open"
    PROVE  Evidence'
  <1>0. StoreOK(store) /\ root \in Roots /\ step \in Nat \ {0} /\ Len(ItemsOf[root]) \in Nat
    BY RootsByPhase DEF TypeOK
  <1>1. CASE EnterPhaseA /\ pc' = "run"
    <2>1. /\ Sound /\ ~AtEnd /\ ~AtEnd' /\ UNCHANGED store /\ pc = "enter_a"
          /\ root' = PhaseA /\ step' = 1
      BY <1>1 DEF EnterPhaseA, Start, Sound, Clear, Entering, AcceptPlaces, AtEnd
    <2>2. root = PhaseA /\ step = 1
      BY <2>1 DEF ProgressFollows
    <2>3. Evidence
      BY <2>1 DEF EvidenceFollows
    <2> QED BY <1>1, <2>1, <2>2, <2>3 DEF Evidence
  <1>2. CASE (EnterPhaseB \/ EnterPhaseC) /\ pc' = "open"
    <2>1. /\ Sound /\ AtEnd /\ ~AtEnd'
      BY <1>2 DEF EnterPhaseB, EnterPhaseC, Sound, Clear, Entering, AcceptPlaces, AtEnd
    <2>2. PICK state \in RunStates : store' = Persisting(store, state)
      BY <1>2, WritesEnd, WhatIsWritten DEF EnterPhaseB, EnterPhaseC
    <2>3. Gains(store, store', {}, {})
      BY <1>0, <2>2, GainsByPersisting
    <2>4. Evidence
      BY <2>1, <2>3, CauseStays DEF EvidenceFollows
    <2>5. Collected(store, root, Len(ItemsOf[root]), TRUE)
      BY <2>1, <2>4 DEF Evidence, ProgressFollows
    <2>6. root' \in Roots /\ Rank(root') = Rank(root) + 1 /\ root' # Final /\ step' = 1
      <3>1. CASE EnterPhaseB /\ pc' = "open"
        <4>1. root = PhaseA /\ root' = At("b", 1) /\ step' = 1
          BY <2>1, <3>1 DEF EnterPhaseB, ProgressFollows, Start
        <4> QED BY <4>1, RootsByPhase, RanksOfRoots DEF At, Final
      <3>2. CASE EnterPhaseC /\ pc' = "open"
        <4>1. root = At("b", Len(Order)) /\ root' = At("c", 1) /\ step' = 1
          BY <2>1, <3>2 DEF EnterPhaseC, ProgressFollows
        <4> QED BY <4>1, RootsByPhase, RanksOfRoots DEF At, Final
      <3> QED BY <1>2, <3>1, <3>2
    <2>7. Collected(store', root', 0, FALSE)
      <3>1. /\ {} \cap (Past(root) \cup {root}) = {}
            /\ Recorded({}) = IF root' = Final THEN {IntegrityOnly(0, "initial-integrity")} ELSE {}
        BY <2>6, RecordsAmong
      <3> QED BY <1>0, <2>3, <2>5, <2>6, <3>1, CollectedGoesOn
    <2>8. Single(Inputs, "inputs", "passed") \in store'.files
      <3>1. Single(Inputs, "inputs", "passed") \in store.files
        BY <2>1, <2>4 DEF Evidence, AtEnd
      <3> QED BY <2>3, <3>1, RecordedTogether
    <2>9. step' - 1 = 0
      BY <2>6
    <2> QED BY <1>2, <2>1, <2>7, <2>8, <2>9 DEF Evidence
  <1> QED BY <1>1, <1>2

(* A stage ends, and the next one or the final verification begins. *)
LEMMA EvidenceOfStage ==
    ASSUME TypeOK, ProgressFollows, EvidenceFollows, ~Cause(store'),
           (FinishStage \/ EnterFinal) /\ pc' = "run"
    PROVE  Evidence'
  <1> DEFINE scan == Single(root, "scan-comparison", "passed")
             mark == IntegrityOnly(0, "initial-integrity")
             ended == Hashing(Listing(Compared("passed"), root))
             gained == IF root' = Final THEN {mark} ELSE {}
  <1>0. /\ StoreOK(store) /\ root \in Roots /\ step \in Nat \ {0} /\ Len(ItemsOf[root]) \in Nat
        /\ root.phase = "c" /\ root # Final /\ root # PhaseA /\ pc = "run" /\ ~Unfinished
        /\ step' = 1 /\ ~AtEnd'
    BY RootsByPhase, WhatIsWritten DEF TypeOK, FinishStage, EnterFinal, Running, AtEnd
  <1>1. Gains(store, ended, {root}, {scan}) /\ Sealed(ended, root)
    <2>1. /\ Gains(store, Compared("passed"), {root}, {scan})
          /\ scan \in Compared("passed").files /\ StoreOK(Compared("passed"))
      BY ComparedPasses
    <2>2. Gains(Compared("passed"), ended, {root}, {}) /\ Sealed(ended, root)
      BY <1>0, <2>1, ListingSeals
    <2> QED BY <2>1, <2>2 DEF Gains
  <1> HIDE DEF ended
  <1>2. /\ root' \in Roots /\ Rank(root') = Rank(root) + 1
        /\ Gains(ended, store', {Final}, gained)
    <2>1. CASE FinishStage
      <3>1. /\ root' = At("c", root.n + 1) /\ store' = Persisting(ended, "phase_c_preapply")
            /\ root.n < Len(Order)
        BY <1>0, <2>1, WritesEnd DEF FinishStage, ended
      <3>2. root.n \in Stages /\ root = At("c", root.n) /\ root.n + 1 \in Stages
        BY <1>0, <3>1, RootsByPhase DEF Stages
      <3>3. root' \in Roots /\ Rank(root') = Rank(root) + 1 /\ root' # Final
        BY <3>1, <3>2, RootsByPhase, RanksOfRoots DEF At, Final
      <3>4. Gains(ended, store', {Final}, {})
        BY <1>1, <3>1, WhatIsWritten, GainsByPersisting, ZenonT(60) DEF Gains
      <3> QED BY <3>3, <3>4
    <2>2. CASE EnterFinal
      <3> DEFINE advanced == Persisting(ended, "final_verification")
                 fs == {mark}
      <3>1. root' = Final /\ store' = Adding(advanced, fs) /\ root.n = Len(Order)
        BY <1>0, <2>2, WritesEnd DEF EnterFinal, ended
      <3>2. root = At("c", Len(Order))
        BY <1>0, <3>1, RootsByPhase
      <3>3. root' \in Roots /\ Rank(root') = Rank(root) + 1
        BY <3>1, <3>2, RootsByPhase, RanksOfRoots
      <3>4. Gains(ended, advanced, {Final}, {})
        BY <1>1, WhatIsWritten, GainsByPersisting, SMTT(60) DEF Gains
      <3>5. \A f \in fs : f.root = Final /\ f.holds \in FilesHold /\ f.status \in Statuses
        <4>1. mark.root = Final /\ mark.status = "passed" /\ mark.holds = "initial-integrity"
          BY RecordsAmong
        <4> HIDE DEF mark
        <4> QED BY <4>1, WhatIsWritten
      <3> HIDE DEF fs, advanced
      <3>6. Gains(advanced, store', {Final}, fs)
        BY <3>1, <3>4, <3>5, WhatIsWritten, GainsByAdding DEF Gains
      <3>7. Gains(ended, store', {Final}, fs)
        BY <3>4, <3>6 DEF Gains
      <3> QED BY <3>1, <3>3, <3>7 DEF fs
    <2> QED BY <2>1, <2>2
  <1>3. ~Cause(ended)
    BY <1>2, CauseStays
  <1>4. /\ Collected(ended, root, Len(ItemsOf[root]), TRUE)
        /\ Single(Inputs, "inputs", "passed") \in ended.files
    BY <1>0, <1>1, <1>3, StageEnds
  <1>5. Collected(store', root', 0, FALSE)
    <2>1. Recorded(gained) = IF root' = Final THEN {mark} ELSE {}
      BY RecordsAmong
    <2>2. {Final} \cap (Past(root) \cup {root}) = {}
      <3>1. Final \notin Past(root)
        <4>1. Past(Final) \cup {Final} = Roots /\ \A r \in Roots : Rank(r) \in Nat
          BY RanksOfRoots
        <4>2. root \in Past(Final)
          BY <1>0, <4>1
        <4> QED BY <4>1, <4>2, <1>0, WhatIsWritten DEF Past
      <3> QED BY <1>0, <3>1
    <2> HIDE DEF gained
    <2> QED BY <1>0, <1>2, <1>4, <2>1, <2>2, CollectedGoesOn
  <1>6. Single(Inputs, "inputs", "passed") \in store'.files
    BY <1>2, <1>4, RecordedTogether
  <1>7. step' - 1 = 0
    BY <1>0
  <1> QED BY <1>0, <1>5, <1>6, <1>7 DEF Evidence

(* The final verification ends, and its evidence is put together. *)
LEMMA EvidenceOfFinal ==
    ASSUME TypeOK, ProgressFollows, EvidenceFollows, ~Cause(store'),
           FinishFinal /\ pc' = "assemble"
    PROVE  Evidence'
  <1> DEFINE scan == Single(root, "scan-comparison", "passed")
             mark == IntegrityOnly(step, "final-integrity")
             combi == Single(Final, "combined", "none")
             supplied == Single(Final, "supplied-series", "none")
             strict == Adding(Compared("passed"), {mark})
             diff == Adding(strict, {combi})
             series == Adding(diff, {supplied})
             fs == (({scan} \cup {mark}) \cup {combi}) \cup {supplied}
  <1>0. /\ StoreOK(store) /\ root \in Roots /\ step \in Nat \ {0} /\ Len(ItemsOf[root]) \in Nat
        /\ root = Final /\ root # PhaseA /\ pc = "run" /\ UNCHANGED <<root, step>>
        /\ Sound /\ ~AtEnd /\ AtEnd'
    <2>1. /\ root.phase = "final" /\ pc = "run" /\ UNCHANGED <<root, step>>
          /\ Sound /\ ~AtEnd /\ AtEnd'
      BY DEF FinishFinal, Running, finishVars, Sound, Clear, AcceptPlaces, AtEnd
    <2> QED BY <2>1, RootsByPhase, WhatIsWritten DEF TypeOK
  <1>1. store' = Hashing(Listing(series, root))
    BY <1>0, WritesEnd DEF FinishFinal
  <1>2. /\ Gains(store, Compared("passed"), {root}, {scan}) /\ Recorded({scan}) = {}
        /\ scan \in Compared("passed").files /\ StoreOK(Compared("passed"))
    BY ComparedPasses
  <1>3. ASSUME NEW f \in {mark, combi, supplied}
        PROVE  \A x \in {f} : x.root = root /\ x.holds \in FilesHold /\ x.status \in Statuses
    <2>1. mark.root = Final /\ mark.status = "passed" /\ mark.holds = "final-integrity"
      BY RecordsAmong
    <2>2. combi.root = Final /\ combi.status = "none" /\ combi.holds = "combined"
      BY RecordsAmong
    <2>3. supplied.root = Final /\ supplied.status = "none" /\ supplied.holds = "supplied-series"
      BY RecordsAmong
    <2> HIDE DEF mark, combi, supplied
    <2> QED BY <1>0, <2>1, <2>2, <2>3, WhatIsWritten
  <1> HIDE DEF scan, mark, combi, supplied
  <1>4. Gains(Compared("passed"), strict, {root}, {mark}) /\ StoreOK(strict)
    <2> DEFINE new == {mark}
    <2>1. \A x \in new : x.root = root /\ x.holds \in FilesHold /\ x.status \in Statuses
      BY <1>3
    <2> HIDE DEF new
    <2> QED BY <1>0, <1>2, <2>1, GainsByAdding DEF Gains, new
  <1> HIDE DEF strict
  <1>5. Gains(strict, diff, {root}, {combi}) /\ StoreOK(diff)
    <2> DEFINE new == {combi}
    <2>1. \A x \in new : x.root = root /\ x.holds \in FilesHold /\ x.status \in Statuses
      BY <1>3
    <2> HIDE DEF new
    <2> QED BY <1>0, <1>4, <2>1, GainsByAdding DEF Gains, new
  <1> HIDE DEF diff
  <1>6. Gains(diff, series, {root}, {supplied}) /\ StoreOK(series)
    <2> DEFINE new == {supplied}
    <2>1. \A x \in new : x.root = root /\ x.holds \in FilesHold /\ x.status \in Statuses
      BY <1>3
    <2> HIDE DEF new
    <2> QED BY <1>0, <1>5, <2>1, GainsByAdding DEF Gains, new
  <1> HIDE DEF series
  <1>7. Gains(store, series, {root}, fs)
    BY <1>2, <1>4, <1>5, <1>6, GainsTwice
  <1> HIDE DEF fs
  <1>8. Gains(series, store', {root}, {}) /\ Sealed(store', root)
    <2>1. scan \in series.files
      BY <1>7 DEF Gains, fs
    <2> QED BY <1>0, <1>1, <1>6, <2>1, ListingSeals DEF scan
  <1>9. Gains(store, store', {root}, fs)
    BY <1>7, <1>8 DEF Gains
  <1>10. Evidence
    BY <1>0, <1>9, CauseStays DEF EvidenceFollows
  <1>11. Recorded(fs) = {IntegrityOnly((step - 1) + 1, "final-integrity")}
    <2>1. /\ Recorded({combi}) = {} /\ Recorded({supplied}) = {}
          /\ Recorded({mark}) = {mark} /\ (step - 1) + 1 = step
      BY <1>0, WhatIsWritten, RecordsAmong DEF combi, supplied, mark
    <2>2. Recorded(fs) = ((Recorded({scan}) \cup Recorded({mark})) \cup Recorded({combi}))
                            \cup Recorded({supplied})
      BY DEF fs, Recorded
    <2>3. Recorded(fs) = {mark}
      BY <1>2, <2>1, <2>2
    <2> QED BY <2>1, <2>3 DEF mark
  <1>12. {combi, supplied} \subseteq store'.files
    BY <1>9 DEF Gains, fs
  <1>13. Collected(store', root, step - 1, TRUE)
    <2>1. Collected(store, root, step - 1, FALSE)
      BY <1>0, <1>10 DEF Evidence
    <2> QED BY <1>0, <1>8, <1>9, <1>11, <1>12, <2>1, CollectedAtEnd DEF combi, supplied
  <1>14. Single(Inputs, "inputs", "passed") \in store'.files
    BY <1>0, <1>9, <1>10, RecordedTogether DEF Evidence
  <1> QED BY <1>0, <1>13, <1>14 DEF Evidence

(* _assemble_evidence adds no record, and seals all of them. *)
LEMMA EvidenceAssembled ==
    ASSUME TypeOK, ProgressFollows, EvidenceFollows, ~Cause(store'),
           AssembleEvidence /\ pc' = "cleanup"
    PROVE  Evidence'
  <1> DEFINE advanced == Persisting(store, "assembling_evidence")
             fs == {Single(Final, "verdict-prep", "none")}
             prepared == Adding(advanced, fs)
  <1>0. /\ StoreOK(store) /\ root \in Roots /\ step - 1 \in Int
        /\ root = Final /\ root # PhaseA /\ pc = "assemble" /\ UNCHANGED <<root, step>>
        /\ Sound /\ AtEnd /\ AtEnd'
    <2>1. /\ pc = "assemble" /\ UNCHANGED <<root, step>> /\ Sound /\ AtEnd /\ AtEnd'
      BY DEF AssembleEvidence, finishVars, Sound, Clear, AcceptPlaces, AtEnd
    <2>2. root = Final
      BY <2>1 DEF ProgressFollows
    <2> QED BY <2>1, <2>2, WhatIsWritten DEF TypeOK
  <1>1. store' = Hashing(Listing(prepared, root))
    BY <1>0, WritesEnd DEF AssembleEvidence
  <1>2. /\ \A x \in fs : x.root = root /\ x.holds \in FilesHold /\ x.status \in Statuses
        /\ Recorded(fs) = {}
    BY <1>0, RecordsAmong, WhatIsWritten
  <1> HIDE DEF fs
  <1>3. /\ Gains(store, advanced, {root}, {}) /\ StoreOK(advanced)
        /\ advanced.run.state = "assembling_evidence"
    BY <1>0, WhatIsWritten, GainsByPersisting, ZenonT(60) DEF Gains
  <1> HIDE DEF advanced
  <1>4. Gains(advanced, prepared, {root}, fs) /\ prepared.run = advanced.run /\ StoreOK(prepared)
    BY <1>0, <1>2, <1>3, GainsByAdding DEF Gains
  <1> HIDE DEF prepared
  <1>5. Gains(store, prepared, {root}, fs)
    BY <1>3, <1>4 DEF Gains
  <1>6. ~Cause(store) /\ ~Cause(prepared)
    <2>1. StoreOK(Hashing(Listing(prepared, root))) /\ Hashing(Listing(prepared, root)).files = prepared.files
      BY <1>0, <1>4, GainsByListing, GainsNothing DEF Gains
    <2>2. ~Cause(prepared)
      BY <1>1, <2>1 DEF Cause
    <2> QED BY <1>5, <2>2, CauseStays
  <1>7. Evidence
    BY <1>0, <1>6 DEF EvidenceFollows
  <1>8. Collected(store, root, step - 1, TRUE)
    BY <1>0, <1>7 DEF Evidence
  <1>9. Sealed(store, root)
    BY <1>0, <1>8, DoneAreRoots DEF Collected
  <1>10. /\ Gains(prepared, store', {root}, {}) /\ Sealed(store', root)
         /\ store'.run = prepared.run /\ store'.hashes.valid
    <2>1. Single(root, "scan-comparison", "passed") \in prepared.files
      BY <1>0, <1>5, <1>9 DEF Gains, Sealed
    <2> QED BY <1>0, <1>1, <1>4, <2>1, ListingSeals
  <1>11. Gains(store, store', {root}, fs)
    BY <1>5, <1>10 DEF Gains
  <1>12. Collected(store', root, step - 1, TRUE)
    BY <1>0, <1>2, <1>8, <1>10, <1>11, CollectedStays
  <1>13. Single(Inputs, "inputs", "passed") \in store'.files
    BY <1>0, <1>7, <1>11, RecordedTogether DEF Evidence
  <1>14. store'.run.state = "assembling_evidence" /\ store'.hashes.valid
    BY <1>3, <1>4, <1>10
  <1> QED BY <1>0, <1>12, <1>13, <1>14 DEF Evidence

(* The worktree of a unit is removed, or that of Phase C at the end.  What *)
(* tells that it was not is the first of the two reasons.                  *)
LEMMA EvidenceOfRemoval ==
    ASSUME TypeOK, ProgressFollows, EvidenceFollows, ~Cause(store'),
           RemoveWorktree \/ FailWorktreeRemoval, exc = NoException, exc' = NoException
    PROVE  Evidence'
  <1> DEFINE fs == {Single(PhaseC, "cleanup-failure", "failed")}
  <1>0. /\ StoreOK(store) /\ root \in Roots /\ step \in Nat \ {0} /\ Len(ItemsOf[root]) \in Nat
        /\ pc = "cleanup" /\ pc' = After(NoException) /\ NextUnit /\ Sound /\ AtEnd
    BY RootsByPhase DEF TypeOK, RemoveWorktree, FailWorktreeRemoval, Sound, AtEnd
  <1>1. /\ \A x \in fs : x.root = PhaseC /\ x.holds \in FilesHold /\ x.status \in Statuses
        /\ Recorded(fs) = {}
    BY RecordsAmong, WhatIsWritten
  <1>2. \/ UNCHANGED store
        \/ root.phase # "b" /\ store' = Hashing(Adding(store, fs))
    <2>1. CASE RemoveWorktree
      BY <2>1 DEF RemoveWorktree
    <2>2. CASE FailWorktreeRemoval
      <3> DEFINE r == IF root.phase = "b" THEN root ELSE PhaseC
                 f == Single(r, "cleanup-failure", "failed")
                 noted == Adding(store, {f})
                 stores == <<noted, Hashing(noted)>>
      <3>1. Writes(stores) \/ WriteFails(stores)
        BY <2>2 DEF FailWorktreeRemoval
      <3>2. ~WriteFails(stores)
        <4> HIDE DEF stores
        <4> QED BY FailedWriteRaises
      <3>3. store' = Hashing(noted)
        BY <3>1, <3>2, WritesEnd
      <3>4. f \in store'.files
        BY <3>3 DEF Hashing, Adding, TypeOK, StoreOK
      <3>5. f.holds = "cleanup-failure" /\ f.root = r
        BY RecordsAmong
      <3>6. root.phase # "b"
        BY <3>4, <3>5 DEF Cause
      <3> QED BY <3>3, <3>6
    <2> QED BY <2>1, <2>2
  <1> HIDE DEF fs
  <1>3. PICK gs : /\ Gains(store, store', {PhaseC}, gs) /\ Recorded(gs) = {}
                  /\ \/ UNCHANGED store
                     \/ root.phase # "b" /\ store'.run = store.run /\ store'.hashes.valid
    <2>1. CASE UNCHANGED store
      BY <1>0, <2>1, GainsNothing, RecordsAmong
    <2>2. CASE root.phase # "b" /\ store' = Hashing(Adding(store, fs))
      <3> DEFINE noted == Adding(store, fs)
      <3>1. Gains(store, noted, {PhaseC}, fs) /\ noted.run = store.run
        BY <1>0, <1>1, GainsByAdding
      <3> HIDE DEF noted
      <3>2. /\ Gains(noted, Hashing(noted), {PhaseC}, {})
            /\ Hashing(noted).run = noted.run /\ Hashing(noted).hashes.valid
        BY <3>1, GainsNothing DEF Gains
      <3>3. Gains(store, Hashing(noted), {PhaseC}, fs)
        BY <3>1, <3>2 DEF Gains
      <3> QED BY <1>1, <2>2, <3>1, <3>2, <3>3 DEF noted
    <2> QED BY <1>2, <2>1, <2>2
  <1>4. Evidence
    BY <1>0, <1>3, CauseStays DEF EvidenceFollows
  <1>5. /\ Collected(store, root, step - 1, TRUE) /\ step - 1 = Len(ItemsOf[root])
        /\ Single(Inputs, "inputs", "passed") \in store'.files
        /\ PhaseC \notin Past(root) \cup {root}
    <2>1. Single(Inputs, "inputs", "passed") \in store'.files
      BY <1>0, <1>3, <1>4, RecordedTogether DEF Evidence
    <2>2. PhaseC \notin Past(root) \cup {root}
      BY <1>0, WhatIsWritten DEF Past
    <2> QED BY <1>0, <1>4, <2>1, <2>2 DEF Evidence, ProgressFollows
  <1>6. CASE pc' = "open"
    <2>1. root.phase = "b" /\ root.n < Len(Order)
      BY <1>0, <1>6 DEF After
    <2>2. root.n \in Stages /\ root = At("b", root.n) /\ root.n + 1 \in Stages
      BY <1>0, <2>1, RootsByPhase DEF Stages
    <2>3. root' = At("b", root.n + 1) /\ step' = 1
      BY <1>0, <1>6 DEF NextUnit, Start
    <2>4. root' \in Roots /\ Rank(root') = Rank(root) + 1 /\ root' # Final
      BY <2>2, <2>3, RootsByPhase, RanksOfRoots DEF At, Final
    <2>5. {PhaseC} \cap (Past(root) \cup {root}) = {}
      BY <1>5
    <2>6. Collected(store', root', 0, FALSE)
      BY <1>0, <1>3, <1>5, <2>4, <2>5, CollectedGoesOn
    <2>7. step' - 1 = 0 /\ ~AtEnd'
      BY <1>6, <2>3 DEF AtEnd
    <2> QED BY <1>5, <1>6, <2>6, <2>7 DEF Evidence
  <1>7. CASE pc' # "open"
    <2>1. UNCHANGED <<root, step>> /\ pc' \in {"enter_c", "close"} /\ AtEnd'
      BY <1>0, <1>7 DEF NextUnit, After, AtEnd
    <2>2. {PhaseC} \cap Done(root, TRUE) = {}
      BY <1>0, <1>5, DoneAreRoots
    <2>3. Collected(store', root, step - 1, TRUE)
      BY <1>0, <1>3, <1>5, <2>2, CollectedStays
    <2>4. root = Final => store'.run.state = "assembling_evidence" /\ store'.hashes.valid
      BY <1>0, <1>3, <1>4 DEF Evidence
    <2> QED BY <1>5, <2>1, <2>3, <2>4 DEF Evidence
  <1> QED BY <1>6, <1>7

(* The evidence follows the campaign, step by step. *)
LEMMA EvidenceFollowsStep ==
    ASSUME TypeOK, ExceptionsFollow, ProgressFollows, EvidenceFollows, [Next]_vars
    PROVE  EvidenceFollows'
  <1> SUFFICES ASSUME Sound', ~Cause(store') PROVE Evidence'
    BY DEF EvidenceFollows
  <1>1. UNCHANGED vars => Sound
    BY DEF vars, Sound
  <1> QED
    BY <1>1, SoundSteps, EvidenceAtFirst, EvidenceStays, EvidenceOfItem, EvidenceOfUnit, EvidenceOfPhase,
       EvidenceOfStage, EvidenceOfFinal, EvidenceAssembled, EvidenceOfRemoval

-----------------------------------------------------------------------------
(* The two reasons for which evidence is refused. *)
Refusals == {"required_check_missing", "artifact_hash_mismatch"}

RefusalFollows ==
    exc.reason \in Refusals => pc \in {"withdraw", "except", "exit", "killed"} /\ Cause(store)

(* No command and no failed write raises them. *)
LEMMA OtherReasons ==
    /\ \A reason : MendRuneError(reason).reason = reason /\ ConfigurationError(reason).reason = reason
    /\ OtherError.reason \notin Refusals /\ KeyboardInterrupt.reason \notin Refusals
    /\ NoException.reason \notin Refusals
    /\ \A e \in StoreExceptions : e.reason \notin Refusals
    /\ \A e, reason : e.reason \notin Refusals /\ reason \notin Refusals
                         => AsMendRuneError(e, reason).reason \notin Refusals
  <1> USE DEF MendRuneError, ConfigurationError, OtherError, KeyboardInterrupt, NoException, Exception,
              Refusals
  <1>1. \A reason : MendRuneError(reason).reason = reason /\ ConfigurationError(reason).reason = reason
    OBVIOUS
  <1>2. /\ OtherError.reason \notin Refusals /\ KeyboardInterrupt.reason \notin Refusals
        /\ NoException.reason \notin Refusals
    OBVIOUS
  <1>3. \A e \in StoreExceptions : e.reason \notin Refusals
    BY DEF StoreExceptions
  <1>4. \A e, reason : e.reason \notin Refusals /\ reason \notin Refusals
                         => AsMendRuneError(e, reason).reason \notin Refusals
    BY DEF AsMendRuneError
  <1> QED BY <1>1, <1>2, <1>3, <1>4

(* No failed write is a refusal. *)
LEMMA FailedWriteRefusesNot ==
    ASSUME NEW stores, WriteFails(stores)
    PROVE  exc'.reason \notin Refusals
  <1>1. CASE LosesOneOf(stores) /\ exc' \in StoreExceptions
    BY <1>1, OtherReasons
  <1>2. CASE MeetsLink(stores)
    BY <1>2, OtherReasons DEF MeetsLink, Refusals
  <1> QED BY <1>1, <1>2 DEF WriteFails

(* No failed command is one. *)
LEMMA CommandRefusesNot ==
    ASSUME TypeOK, Command, exc.reason \notin Refusals
    PROVE  exc'.reason \notin Refusals
  <1>1. CASE CheckPasses \/ Interrupt
    BY <1>1, OtherReasons DEF CheckPasses, Interrupt
  <1>2. CASE CommandFails \/ ResultRejected \/ CheckRecordLost
    <2>1. FailureCode \notin Refusals
      <3>1. AtCommand
        BY <1>2 DEF CommandFails, ResultRejected, CheckRecordLost
      <3>2. /\ root.phase \in {"a", "b", "c", "final"} /\ Item.kind \in Kinds \ {"patch"}
            /\ root.phase \in {"a", "b", "final"} => Item.kind # "preapply"
        BY <3>1, ItemsOfRoots DEF TypeOK, Commanded, AtCommand
      <3>3. Item.kind \in {"build", "regression", "oracle", "scanner", "preapply"}
        BY <3>2 DEF Kinds
      <3> QED BY <3>2, <3>3 DEF FailureCode, FailureCodes, Refusals
    <2>2. \A e : e.reason \notin Refusals => Rethrown(e).reason \notin Refusals
      BY <2>1, OtherReasons DEF Rethrown
    <2>3. \A effect, end : /\ IntegrityError(effect).reason \notin Refusals
                           /\ EndError(end).reason \notin Refusals
      BY <2>1, OtherReasons DEF IntegrityError, EndError, Refusals
    <2>4. \A answer \in {"vulnerable", "mitigated", "invalid"} : ResultError(answer).reason \notin Refusals
      BY OtherReasons DEF ResultError, Refusals
    <2>5. CASE CommandFails
      <3>1. PICK end, effect : exc' = Rethrown(IF effect \in Harmful THEN IntegrityError(effect)
                                               ELSE EndError(end))
        BY <2>5 DEF CommandFails
      <3> QED BY <2>2, <2>3, <3>1
    <2>6. CASE ResultRejected
      <3>1. PICK answer \in {"vulnerable", "mitigated", "invalid"} : exc' = Rethrown(ResultError(answer))
        BY <2>6 DEF ResultRejected
      <3> QED BY <2>2, <2>4, <3>1
    <2>7. CASE CheckRecordLost
      <3>1. PICK e \in StoreExceptions : exc' = Rethrown(e) \/ exc' = e
        BY <2>7 DEF CheckRecordLost
      <3> QED BY <2>2, <3>1, OtherReasons
    <2> QED BY <1>2, <2>5, <2>6, <2>7
  <1> QED BY <1>1, <1>2 DEF Command

(* Only the final verification refuses evidence. *)
LEMMA OnlyVerificationRefuses ==
    ASSUME TypeOK, [Next]_vars, exc.reason \notin Refusals, exc'.reason \in Refusals
    PROVE  RejectEvidence
  <1>1. CASE Prepare
    <2>1. {"unexpected_exception", "invalid_campaign", "input_capture_race", "podman_unavailable",
           "goose_adaptation_failed", "repository_not_local_git"} \cap Refusals = {}
      BY DEF Refusals
    <2>2. \A e : e.reason \notin Refusals /\ Leave(e) => exc'.reason \notin Refusals
      BY <2>1, OtherReasons DEF Leave
    <2> QED
      BY <1>1, <2>1, <2>2, OtherReasons DEF Prepare, RejectCampaign, CreateRun, QualifyRuntime,
         RejectRuntime, CaptureInputs, FailCapture, OpenBaseline, FailBaselineWorktree
  <1>2. CASE Enter
    BY <1>2, OtherReasons, FailedWriteRefusesNot
       DEF Enter, EnterPhaseA, EnterPhaseB, EnterPhaseC, OpenWorktree, Refusals
  <1>3. CASE Command
    BY <1>3, CommandRefusesNot
  <1>4. CASE Patch
    BY <1>4, OtherReasons, FailedWriteRefusesNot
       DEF Patch, PatchApplies, PatchFails, PatchRecordLost, BeginApply, BeginVerify, AdvanceStage, Refusals
  <1>5. CASE Finish
    BY <1>5, OtherReasons, FailedWriteRefusesNot
       DEF Finish, FinishBaseline, FinishUnit, FinishStage, EnterFinal, FinishFinal, RejectFindings,
       AssembleEvidence, Refusals
  <1>6. CASE FailPhase \/ PersistTerminalFailure
    <2>1. {"unexpected_exception", "unexpected_internal_error"} \cap Refusals = {}
      BY DEF Refusals
    <2>2. \A reason \in {"unexpected_exception", "unexpected_internal_error"} :
              AsMendRuneError(exc, reason).reason \notin Refusals
      BY <2>1, OtherReasons
    <2>3. CASE FailPhase
      BY <2>2, <2>3, FailedWriteRefusesNot DEF FailPhase
    <2>4. CASE PersistTerminalFailure
      <3>1. PICK stores, e : \/ Leave(e) /\ e = AsMendRuneError(exc, "unexpected_exception")
                             \/ WriteFails(stores)
        BY <2>4 DEF PersistTerminalFailure
      <3>2. Leave(e) => exc' = AsMendRuneError(e, "unexpected_exception")
        BY DEF Leave
      <3> QED BY <2>1, <2>2, <3>1, <3>2, OtherReasons, FailedWriteRefusesNot
    <2> QED BY <1>6, <2>3, <2>4
  <1>7. CASE Cleanup
    BY <1>7, OtherReasons, FailedWriteRefusesNot
       DEF Cleanup, RemoveWorktree, FailWorktreeRemoval, Close, FailClose, Refusals
  <1>8. CASE Accept /\ ~RejectEvidence
    <2>1. CASE WithdrawAcceptance
      <3>1. exc' = AsMendRuneError(exc, "provenance_incomplete") \/ exc' \in StoreExceptions
        BY <2>1 DEF WithdrawAcceptance, StoreExceptions
      <3> QED BY <3>1, OtherReasons DEF Refusals
    <2>2. CASE VerifyEvidence
      BY <2>2 DEF VerifyEvidence
    <2>3. CASE WriteVerdict \/ WriteReport \/ PersistAccepted \/ RecordOutcome \/ SealAcceptance
      BY <2>3, FailedWriteRefusesNot
         DEF WriteVerdict, WriteReport, PersistAccepted, RecordOutcome, SealAcceptance, AcceptanceWrite
    <2> QED BY <1>8, <2>1, <2>2, <2>3 DEF Accept
  <1>9. CASE Kill \/ UNCHANGED vars
    BY <1>9 DEF Kill, vars
  <1> QED BY <1>1, <1>2, <1>3, <1>4, <1>5, <1>6, <1>7, <1>8, <1>9 DEF Next, Step, Ended

(* Evidence with nothing against it is not refused. *)
LEMMA RefusedForAReason ==
    ASSUME TypeOK, ProgressFollows, EvidenceFollows, RejectEvidence
    PROVE  Cause(store)
  <1> SUFFICES ASSUME ~Cause(store) PROVE FALSE
    OBVIOUS
  <1>1. pc = "verify" /\ Sound /\ AtEnd
    BY DEF RejectEvidence, Sound, Clear, AcceptPlaces, AtEnd
  <1>2. Evidence
    BY <1>1 DEF EvidenceFollows
  <1>3. root = Final /\ step - 1 = Len(ItemsOf[Final])
    BY <1>1 DEF ProgressFollows
  <1>4. /\ Collected(store, Final, Len(ItemsOf[Final]), TRUE)
        /\ Single(Inputs, "inputs", "passed") \in store.files
        /\ store.run.state = "assembling_evidence" /\ store.hashes.valid
    BY <1>1, <1>2, <1>3 DEF Evidence
  <1>5. EvidenceComplete(store)
    BY <1>4, CollectedIsComplete
  <1> QED BY <1>4, <1>5 DEF RejectEvidence

(* Once it is refused, the reason stays on disk. *)
LEMMA RefusalFollowsStep ==
    ASSUME TypeOK, ExceptionsFollow, ProgressFollows, EvidenceFollows, RefusalFollows, [Next]_vars
    PROVE  RefusalFollows'
  <1> SUFFICES ASSUME exc'.reason \in Refusals
               PROVE  pc' \in {"withdraw", "except", "exit", "killed"} /\ Cause(store')
    BY DEF RefusalFollows
  <1>1. CASE exc.reason \notin Refusals
    <2>1. RejectEvidence
      BY <1>1, OnlyVerificationRefuses
    <2>2. Cause(store) /\ store' = store /\ pc' = "withdraw"
      BY <2>1, RefusedForAReason DEF RejectEvidence
    <2> QED BY <2>2
  <1>2. CASE exc.reason \in Refusals
    <2>1. pc \in {"withdraw", "except", "exit", "killed"} /\ Cause(store)
      BY <1>2 DEF RefusalFollows
    <2>2. \/ WithdrawAcceptance \/ PersistTerminalFailure
          \/ (Close \/ FailClose) /\ pc = "except"
          \/ Kill \/ UNCHANGED vars
      <3>1. ~Prepare
        BY <2>1 DEF Prepare, RejectCampaign, CreateRun, QualifyRuntime, RejectRuntime, CaptureInputs,
           FailCapture, OpenBaseline, FailBaselineWorktree
      <3>2. ~Enter
        BY <2>1 DEF Enter, EnterPhaseA, EnterPhaseB, EnterPhaseC, OpenWorktree
      <3>3. ~Command /\ ~Patch
        BY <2>1 DEF Command, CheckPasses, CommandFails, ResultRejected, CheckRecordLost, Interrupt,
           AtCommand, Patch, PatchApplies, PatchFails, PatchRecordLost, AtPatch, BeginApply, BeginVerify,
           Running
      <3>4. ~Finish /\ ~FailPhase
        BY <2>1 DEF Finish, FinishBaseline, FinishUnit, FinishStage, EnterFinal, FinishFinal,
           RejectFindings, AssembleEvidence, Running, FailPhase
      <3>5. Cleanup => (Close \/ FailClose) /\ pc = "except"
        BY <2>1 DEF Cleanup, RemoveWorktree, FailWorktreeRemoval, Close, FailClose
      <3>6. Accept => WithdrawAcceptance
        BY <2>1 DEF Accept, VerifyEvidence, RejectEvidence, WriteVerdict, WriteReport, PersistAccepted,
           RecordOutcome, SealAcceptance, AcceptanceWrite
      <3> QED BY <3>1, <3>2, <3>3, <3>4, <3>5, <3>6 DEF Next, Step, Ended
    <2>3. CASE WithdrawAcceptance
      <3> DEFINE removed == Withdrawn(store)
                 reported == WithdrawnVerdict(store)
                 failure == AsMendRuneError(exc, "provenance_incomplete")
                 record == FailureRecord(removed, "evidence_failure", failure.reason)
      <3>1. Cause(removed) /\ Cause(reported)
        <4>1. Verdict.holds = "verdict" /\ Report.holds = "report"
          BY RecordsAmong DEF Verdict, Report
        <4>2. StoreOK(store)
          BY DEF TypeOK
        <4>3. /\ removed.files = store.files \ {Verdict, Report}
              /\ reported.files = store.files \ {Verdict}
          BY <4>2 DEF Withdrawn, WithdrawnVerdict, StoreOK
        <4> HIDE DEF removed, reported
        <4> QED BY <2>1, <4>1, <4>3 DEF Cause
      <3>2. DOMAIN removed = {"files", "manifest", "run", "hashes"}
        BY DEF Withdrawn, TypeOK, StoreOK
      <3> HIDE DEF removed, reported, failure
      <3>3. Cause(record[1]) /\ Cause(record[2]) /\ Cause(record[3])
        <4>1. \A run : /\ Recording(removed, run).files = removed.files
                       /\ Hashing(Recording(removed, run)).files = removed.files
          BY <3>2 DEF Recording, Hashing
        <4>2. record[1].files = removed.files /\ record[2].files = removed.files /\ record[3].files = removed.files
          BY <4>1 DEF FailureRecord, Persisting
        <4> QED BY <3>1, <4>2 DEF Cause
      <3>4. pc' = "except" /\ store' \in {store, reported, removed, record[1], record[2], record[3]}
        <4>1. /\ pc' = "except"
              /\ \/ Writes(record)
                 \/ store' \in {store, reported}
                 \/ store' \in {removed, record[1], record[2]}
          BY <2>3 DEF WithdrawAcceptance, removed, reported, failure
        <4>2. Writes(record) => store' = record[3]
          BY WritesEnd DEF FailureRecord
        <4> QED BY <4>1, <4>2
      <3> QED BY <2>1, <3>1, <3>3, <3>4
    <2>4. CASE PersistTerminalFailure
      <3> DEFINE failure == AsMendRuneError(exc, "unexpected_exception")
                 target == TerminalFailure(store.run.state, failure.reason)
                 record == FailureRecord(store, target, failure.reason)
      <3>1. pc' = "exit" /\ (Writes(record) \/ WriteFails(record))
        BY <2>4 DEF PersistTerminalFailure, Leave
      <3> HIDE DEF failure, target
      <3>2. Len(record) = 3 /\ faults \in 0..MaxStoreFaults
        BY DEF FailureRecord, TypeOK
      <3>3. store' = store \/ \E j \in 1..3 : store' = record[j]
        <4> HIDE DEF record
        <4>1. Len(record) \in Nat \ {0} /\ 1..Len(record) = 1..3
          BY <3>2
        <4>2. Writes(record) \/ LosesOneOf(record) \/ WriteFails(record)
          BY <3>1
        <4>3. store' = store \/ \E j \in 1..Len(record) : store' = record[j]
          BY <3>2, <4>1, <4>2, StoreAfterWrites
        <4> QED BY <4>1, <4>3
      <3>4. \A j \in 1..3 : record[j].files = store.files
        <4>1. \A run : /\ Recording(store, run).files = store.files
                       /\ Hashing(Recording(store, run)).files = store.files
          BY DEF Recording, Hashing, TypeOK, StoreOK
        <4>2. record[1].files = store.files /\ record[2].files = store.files /\ record[3].files = store.files
          BY <4>1 DEF FailureRecord, Persisting
        <4> QED BY <4>2
      <3> HIDE DEF record
      <3> QED BY <2>1, <3>1, <3>3, <3>4 DEF Cause
    <2>5. CASE (Close \/ FailClose) /\ pc = "except"
      BY <2>1, <2>5 DEF Close, FailClose
    <2>6. CASE Kill \/ UNCHANGED vars
      BY <2>1, <2>6 DEF Kill, vars
    <2> QED BY <2>2, <2>3, <2>4, <2>5, <2>6
  <1> QED BY <1>1, <1>2

(* How far the campaign has come, and what it has recorded by then. *)
THEOREM EvidenceInvariant == Spec => [](ProgressFollows /\ EvidenceFollows /\ RefusalFollows)
  <1> DEFINE Inv == ProgressFollows /\ EvidenceFollows /\ RefusalFollows
  <1>1. Init => Inv
    <2> SUFFICES ASSUME Init PROVE Inv
      OBVIOUS
    <2>0. /\ pc = "start" /\ root = PhaseA /\ step = 1 /\ step - 1 = 0 /\ exc = NoException
          /\ store = EmptyStore /\ ~AtEnd /\ PhaseA # Final /\ Len(ItemsOf[PhaseA]) \in Nat
      BY WhatIsWritten, RootsByPhase DEF Init, AtEnd
    <2>1. ProgressFollows
      BY <2>0 DEF ProgressFollows, Early
    <2>2. Collected(store, PhaseA, 0, FALSE)
      <3>1. Done(PhaseA, FALSE) = {} /\ Past(PhaseA) = {}
        BY WhatIsWritten, RanksOfRoots, DoneAreRoots
      <3>2. RootFiles(PhaseA, 0) = {} /\ Marks(PhaseA, 0, FALSE) = {}
        BY <2>0 DEF RootFiles, Marks
      <3>3. Recorded(store.files) = {}
        BY <2>0 DEF Recorded, EmptyStore
      <3> QED BY <3>1, <3>2, <3>3 DEF Collected, Due
    <2>3. EvidenceFollows
      BY <2>0, <2>2 DEF EvidenceFollows, Evidence
    <2>4. RefusalFollows
      BY <2>0, OtherReasons DEF RefusalFollows
    <2> QED BY <2>1, <2>3, <2>4
  <1>2. TypeOK /\ (ExceptionsFollow /\ WorktreesFollow) /\ FindingsInv /\ TreeFollows /\ Inv
            /\ [Next]_vars => Inv'
    BY ProgressFollowsStep, EvidenceFollowsStep, RefusalFollowsStep DEF FindingsInv
  <1> QED
    BY <1>1, <1>2, TypeCorrect, PlacesInvariant, FindingsInvariant, TreeInvariant, PTL DEF Spec

(* _verify_final_evidence refuses a run for two reasons only, whatever the *)
(* campaign and whatever fails: what tells of a worktree of Phase B that   *)
(* was not removed, or a file elsewhere that looks like a record.  The     *)
(* numbers it expects are those that execution has used.                   *)
THEOREM RefusedForCause == Spec => []EvidenceIsRefusedForCause
  <1>1. RefusalFollows => EvidenceIsRefusedForCause
    BY DEF RefusalFollows, Refusals, Cause, EvidenceIsRefusedForCause
  <1> QED BY <1>1, EvidenceInvariant, PTL

=============================================================================
