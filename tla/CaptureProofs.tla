---------------------------- MODULE CaptureProofs ----------------------------
(***************************************************************************)
(* Proofs, for any number of patches, evidence files, versions and edits,  *)
(* of the safety properties of Capture, and that its copy of the evidence  *)
(* is one that Snapshot allows.                                            *)
(***************************************************************************)
EXTENDS Capture, SequenceTheorems, TLAPS

File == [blocks : Seq(Nat), regular : BOOLEAN, executable : BOOLEAN, stamp : Nat]
Copy == [blocks : Seq(Nat), size : Nat, executable : BOOLEAN]
Entry == [size : Nat, executable : BOOLEAN]
Input == [campaign : Versions \cup {Absent}, patches : Seq(Versions),
          recipe : Versions \cup {Absent}, evidence : Seq(Copy), manifest : Seq(Copy)]

Early == {"read", "load", "inventory", "verify", "recipe", "compare"}
Copying == {"before", "copy", "after"}
Ends == {"captured", "refused", "failed"}

(***************************************************************************)
(* The parts of the inductive invariant.                                   *)
(***************************************************************************)
WorldTypes ==
    /\ campaign \in Versions /\ patchFile \in [PatchSet -> Versions] /\ recipe \in Versions
    /\ source \in [EvidenceSet -> File]
    /\ edits \in Nat /\ went \subseteq Versions /\ reverted \in BOOLEAN

MemoryTypes ==
    /\ pc \in Early \cup {"freeze", "patches", "manifest"} \cup Copying \cup Ends
    /\ i \in Nat
    /\ original \in Versions \cup {Absent} /\ config \in Versions \cup {Absent}
    /\ recipeDigest \in Versions \cup {Absent}
    /\ inventory \in Seq(Entry) /\ chunks \in Seq(Nat)
    /\ input \in Input

Loops ==
    /\ pc \in {"verify", "patches"} => i \in 1..Len(Patches)
    /\ pc \in {"inventory"} \cup Copying => i \in 1..Len(Evidence)
    /\ pc \notin {"read", "load", "refused"} => config \in Versions
    /\ pc \in {"read", "load"} => inventory = <<>>
    /\ pc = "inventory" => Len(inventory) = i - 1
    /\ pc \notin {"read", "load", "inventory", "refused"} => Len(inventory) = Len(Evidence)

\* The file has been original while it was read, and is not again unless it is reverted.
CampaignRead ==
    /\ campaign \in went
    /\ pc \notin {"read"} => original \in went
    /\ pc \notin {"read", "load"} /\ ~reverted /\ config # original => campaign # original
    /\ pc \in {"freeze", "patches", "manifest", "captured"} \cup Copying /\ ~reverted =>
          config = original
    /\ pc \in {"patches", "manifest", "captured"} \cup Copying => input.campaign = original

PatchesFrozen ==
    /\ pc \in Early \cup {"freeze"} => input.patches = <<>> /\ input.recipe = Absent
    /\ Len(input.patches) <= Len(Patches)
    /\ pc = "patches" => Len(input.patches) = i - 1
    /\ pc \in {"manifest", "captured"} \cup Copying => Len(input.patches) = Len(Patches)
    /\ pc \in {"patches", "manifest", "captured"} \cup Copying =>
          /\ \A j \in 1..Len(input.patches) : input.patches[j] = Declares[config][Patches[j]]
          /\ input.recipe \in {Absent, recipeDigest}
          /\ (\E j \in 1..Len(input.patches) : Patches[j] \in Adapted) =>
                input.recipe = recipeDigest

\* While the file that is copied has not been written to, the copy is a beginning of it.
CopyFollows ==
    pc \in {"copy", "after"} =>
        LET file == source[Evidence[i]]
        IN  /\ before \in Nat \X BOOLEAN \X BOOLEAN \X Nat
            /\ before[1] <= file.stamp
            /\ before[1] = file.stamp =>
                 /\ before[2] /\ file.regular
                 /\ before[4] = Len(file.blocks)
                 /\ Len(chunks) <= Len(file.blocks)
                 /\ \A b \in 1..Len(chunks) : chunks[b] = file.blocks[b]
                 /\ pc = "after" => Len(chunks) = Len(file.blocks)

EvidenceCopied ==
    /\ pc \in Early \cup {"freeze", "patches", "refused"} => input.evidence = <<>>
    /\ pc \in Copying => Len(input.evidence) = i - 1
    /\ pc \in {"manifest", "captured"} => Len(input.evidence) = Len(Evidence)
    /\ pc = "failed" => Len(input.evidence) \in {0, Len(Evidence)}
    /\ input.manifest = <<>> \/ input.manifest = input.evidence
    /\ pc \notin {"captured", "failed"} => input.manifest = <<>>
    /\ pc = "captured" => input.manifest = input.evidence
    /\ \A j \in 1..Len(input.evidence) : input.evidence[j].size = Len(input.evidence[j].blocks)

IInv ==
    /\ WorldTypes /\ MemoryTypes /\ Loops /\ CampaignRead /\ PatchesFrozen
    /\ CopyFollows /\ EvidenceCopied

-----------------------------------------------------------------------------
(* What an edit does                                                       *)

LEMMA IndexedPatches ==
  /\ Len(Patches) \in Nat /\ Len(Patches) > 0
  /\ \A j \in 1..Len(Patches) : Patches[j] \in PatchSet
<1>1. Len(Patches) \in Nat /\ Len(Patches) > 0 /\ DOMAIN Patches = 1..Len(Patches)
  BY InputsAreGiven
<1>2. ASSUME NEW j \in 1..Len(Patches) PROVE Patches[j] \in PatchSet
  BY <1>1 DEF PatchSet
<1>3. QED
  BY <1>1, <1>2

LEMMA IndexedEvidence ==
  /\ Len(Evidence) \in Nat /\ Len(Evidence) > 0
  /\ \A j \in 1..Len(Evidence) : Evidence[j] \in EvidenceSet
<1>1. Len(Evidence) \in Nat /\ Len(Evidence) > 0 /\ DOMAIN Evidence = 1..Len(Evidence)
  BY InputsAreGiven
<1>2. ASSUME NEW j \in 1..Len(Evidence) PROVE Evidence[j] \in EvidenceSet
  BY <1>1 DEF EvidenceSet
<1>3. QED
  BY <1>1, <1>2

LEMMA EditsAreTyped ==
  ASSUME WorldTypes, Editor
  PROVE  WorldTypes'
<1>1. edits' \in Nat
  BY DEF WorldTypes, Editor, EditCampaign, EditPatchOrRecipe, EditEvidence, EditMode, Edit
<1>2. CASE EditCampaign
  <2>1. reverted' \in BOOLEAN
    BY <1>2, Zenon DEF EditCampaign
  <2>2. QED
    BY <1>1, <1>2, <2>1 DEF WorldTypes, EditCampaign
<1>3. CASE EditPatchOrRecipe
  <2>1. patchFile' \in [PatchSet -> Versions] /\ recipe' \in Versions
    BY <1>3 DEF WorldTypes, EditPatchOrRecipe
  <2>2. QED
    BY <1>1, <1>3, <2>1 DEF WorldTypes, EditPatchOrRecipe
<1>4. CASE EditEvidence
  <2>1. PICK e \in EvidenceSet, regular \in BOOLEAN, size \in 0..MaxSize :
          \E blocks \in [1..size -> {0, edits'}] :
             source' = [source EXCEPT ![e] = [blocks |-> blocks, regular |-> regular,
                                   executable |-> @.executable, stamp |-> @.stamp + 1]]
    BY <1>4 DEF EditEvidence
  <2>2. PICK blocks \in [1..size -> {0, edits'}] :
          source' = [source EXCEPT ![e] = [blocks |-> blocks, regular |-> regular,
                                   executable |-> @.executable, stamp |-> @.stamp + 1]]
    BY <2>1
  <2>3. blocks \in Seq(Nat)
    BY <1>1, InputsAreGiven
  <2>4. source' \in [EvidenceSet -> File]
    BY <2>2, <2>3 DEF WorldTypes, File
  <2>5. QED
    BY <1>1, <1>4, <2>4 DEF WorldTypes, EditEvidence
<1>5. CASE EditMode
  <2>1. source' \in [EvidenceSet -> File]
    BY <1>5, ZenonT(60) DEF WorldTypes, EditMode, File
  <2>2. QED
    BY <1>1, <1>5, <2>1 DEF WorldTypes, EditMode
<1>6. QED
  BY <1>2, <1>3, <1>4, <1>5 DEF Editor

(* An edit of a file leaves its content alone or advances its stamp.       *)
LEMMA EditsAreStamped ==
  ASSUME WorldTypes, Editor, NEW e \in EvidenceSet
  PROVE  \/ source'[e].stamp > source[e].stamp
         \/ /\ source'[e].stamp = source[e].stamp
            /\ source'[e].blocks = source[e].blocks
            /\ source'[e].regular = source[e].regular
<1>1. CASE EditCampaign \/ EditPatchOrRecipe
  BY <1>1 DEF EditCampaign, EditPatchOrRecipe, WorldTypes, File
<1>2. CASE EditEvidence
  BY <1>2 DEF EditEvidence, WorldTypes, File
<1>3. CASE EditMode
  BY <1>3 DEF EditMode, WorldTypes, File
<1>4. QED
  BY <1>1, <1>2, <1>3 DEF Editor

LEMMA EditsKeepIInv ==
  ASSUME IInv, Editor
  PROVE  IInv'
<1>1. UNCHANGED <<memory, input>>
  BY DEF Editor, EditCampaign, EditPatchOrRecipe, EditEvidence, EditMode, Edit
<1>2. WorldTypes'
  BY EditsAreTyped DEF IInv
<1>3. MemoryTypes' /\ Loops' /\ PatchesFrozen' /\ EvidenceCopied'
  BY <1>1 DEF IInv, MemoryTypes, Loops, PatchesFrozen, EvidenceCopied, memory
<1>4. CampaignRead'
  BY <1>1 DEF IInv, CampaignRead, memory, Editor, EditCampaign, EditPatchOrRecipe, EditEvidence,
     EditMode
<1>5. CopyFollows'
  <2>1. SUFFICES ASSUME pc \in {"copy", "after"}
                 PROVE  CopyFollows'
    BY <1>1 DEF CopyFollows, memory
  <2>2. Evidence[i] \in EvidenceSet
    BY <2>1, IndexedEvidence DEF IInv, Loops, Copying
  <2>3. \/ source'[Evidence[i]].stamp > source[Evidence[i]].stamp
        \/ /\ source'[Evidence[i]].stamp = source[Evidence[i]].stamp
           /\ source'[Evidence[i]].blocks = source[Evidence[i]].blocks
           /\ source'[Evidence[i]].regular = source[Evidence[i]].regular
    BY <2>2, EditsAreStamped DEF IInv
  <2>4. source[Evidence[i]].stamp \in Nat /\ source'[Evidence[i]].stamp \in Nat
    BY <1>2, <2>2 DEF IInv, WorldTypes, File
  <2>5. before[1] \in Nat
    BY <2>1 DEF IInv, CopyFollows
  <2>6. UNCHANGED <<pc, i, before, chunks>>
    BY <1>1 DEF memory
  <2>7. before \in Nat \X BOOLEAN \X BOOLEAN \X Nat /\ before[1] <= source[Evidence[i]].stamp
    BY <2>1 DEF IInv, CopyFollows
  <2>8. CASE source'[Evidence[i]].stamp > source[Evidence[i]].stamp
    <3>1. before[1] <= source'[Evidence[i]].stamp /\ before[1] # source'[Evidence[i]].stamp
      BY <2>4, <2>5, <2>7, <2>8
    <3>2. QED
      BY <2>6, <2>7, <3>1 DEF CopyFollows
  <2>9. CASE /\ source'[Evidence[i]].stamp = source[Evidence[i]].stamp
             /\ source'[Evidence[i]].blocks = source[Evidence[i]].blocks
             /\ source'[Evidence[i]].regular = source[Evidence[i]].regular
    BY <2>1, <2>6, <2>9 DEF IInv, CopyFollows
  <2>10. QED
    BY <2>3, <2>8, <2>9
<1>6. QED
  BY <1>2, <1>3, <1>4, <1>5 DEF IInv


-----------------------------------------------------------------------------
(* What the program does before there is a run                             *)

LEMMA ReadKeepsIInv ==
  ASSUME IInv, Read
  PROVE  IInv'
<1>1. UNCHANGED world
  BY DEF Read
<1>2. WorldTypes' /\ CopyFollows'
  BY <1>1 DEF IInv, Read, Goto, WorldTypes, CopyFollows, world
<1>3. MemoryTypes' /\ Loops'
  BY DEF IInv, Read, Goto, WorldTypes, MemoryTypes, Loops, Early, Copying, Ends
<1>4. CampaignRead'
  BY <1>1 DEF IInv, Read, Goto, CampaignRead, Early, Copying, world
<1>5. PatchesFrozen' /\ EvidenceCopied'
  BY DEF IInv, Read, Goto, PatchesFrozen, EvidenceCopied, Early, Copying
<1>6. QED
  BY <1>2, <1>3, <1>4, <1>5 DEF IInv

LEMMA LoadKeepsIInv ==
  ASSUME IInv, Load
  PROVE  IInv'
<1>1. UNCHANGED world
  BY DEF Load
<1>2. WorldTypes' /\ CopyFollows'
  BY <1>1 DEF IInv, Load, Goto, Refused, WorldTypes, CopyFollows, world
<1>3. MemoryTypes' /\ Loops'
  BY IndexedEvidence DEF IInv, Load, Goto, Refused, WorldTypes, MemoryTypes, Loops, Early,
     Copying, Ends
<1>4. CampaignRead'
  BY <1>1 DEF IInv, Load, Goto, Refused, CampaignRead, Early, Copying, world
<1>5. PatchesFrozen' /\ EvidenceCopied'
  BY DEF IInv, Load, Goto, Refused, PatchesFrozen, EvidenceCopied, Early, Copying
<1>6. QED
  BY <1>2, <1>3, <1>4, <1>5 DEF IInv

LEMMA InventoryKeepsIInv ==
  ASSUME IInv, Inventory
  PROVE  IInv'
<1>1. UNCHANGED world
  BY DEF Inventory
<1>2. pc = "inventory" /\ i \in 1..Len(Evidence) /\ Evidence[i] \in EvidenceSet
  BY IndexedEvidence DEF IInv, Inventory, Loops
<1>3. WorldTypes' /\ CopyFollows'
  BY <1>1, <1>2 DEF IInv, Inventory, Loop, Goto, Refused, WorldTypes, CopyFollows, world
<1>4. source[Evidence[i]] \in File
  BY <1>2 DEF IInv, WorldTypes
<1>5. MemoryTypes' /\ Loops'
  <2>1. CASE /\ inventory' = Append(inventory, [size |-> Len(source[Evidence[i]].blocks),
                                                executable |-> source[Evidence[i]].executable])
             /\ Loop(Len(Evidence), "verify")
    <3>1. [size |-> Len(source[Evidence[i]].blocks),
           executable |-> source[Evidence[i]].executable] \in Entry
      BY <1>4 DEF File, Entry
    <3>2. inventory' \in Seq(Entry) /\ Len(inventory') = Len(inventory) + 1
      BY <2>1, <3>1 DEF IInv, MemoryTypes
    <3>3. UNCHANGED <<original, config, recipeDigest, chunks, input>>
      BY DEF Inventory
    <3>4. \/ i < Len(Evidence) /\ i' = i + 1 /\ pc' = "inventory"
          \/ i = Len(Evidence) /\ i' = 1 /\ pc' = "verify"
      BY <1>2, <2>1, IndexedEvidence DEF Loop, Goto
    <3>5. MemoryTypes'
      BY <1>2, <3>2, <3>3, <3>4 DEF IInv, MemoryTypes, Early
    <3>6. Loops'
      <4>1. Len(inventory') = i /\ config \in Versions
        BY <1>2, <3>2, IndexedEvidence DEF IInv, Loops
      <4>2. QED
        BY <1>2, <3>3, <3>4, <4>1, IndexedPatches, IndexedEvidence DEF Loops, Copying
    <3>7. QED
      BY <3>5, <3>6
  <2>2. CASE Refused /\ UNCHANGED inventory
    BY <1>2, <2>2 DEF IInv, Inventory, Goto, Refused, MemoryTypes, Loops, Early, Copying, Ends
  <2>3. QED
    BY <2>1, <2>2 DEF Inventory
<1>6. CampaignRead'
  BY <1>1, <1>2 DEF IInv, Inventory, Loop, Goto, Refused, CampaignRead, Early, Copying, world
<1>7. PatchesFrozen' /\ EvidenceCopied'
  BY <1>2 DEF IInv, Inventory, Loop, Goto, Refused, PatchesFrozen, EvidenceCopied, Early, Copying
<1>8. QED
  BY <1>3, <1>5, <1>6, <1>7 DEF IInv

LEMMA VerifyKeepsIInv ==
  ASSUME IInv, VerifyPatch \/ VerifyRecipe
  PROVE  IInv'
<1>1. UNCHANGED <<world, input, chunks, before, original, config, inventory>>
  BY DEF VerifyPatch, VerifyRecipe
<1>2. WorldTypes' /\ CopyFollows'
  BY <1>1 DEF IInv, VerifyPatch, VerifyRecipe, Loop, Goto, Refused, WorldTypes, CopyFollows, world
<1>3. MemoryTypes' /\ Loops'
  BY <1>1, IndexedPatches DEF IInv, VerifyPatch, VerifyRecipe, Loop, Goto, Refused, WorldTypes,
     MemoryTypes, Loops, Early, Copying, Ends
<1>4. CampaignRead'
  BY <1>1 DEF IInv, VerifyPatch, VerifyRecipe, Loop, Goto, Refused, CampaignRead, Early, Copying,
     world
<1>5. PatchesFrozen' /\ EvidenceCopied'
  BY <1>1 DEF IInv, VerifyPatch, VerifyRecipe, Loop, Goto, Refused, PatchesFrozen, EvidenceCopied,
     Early, Copying
<1>6. QED
  BY <1>2, <1>3, <1>4, <1>5 DEF IInv

LEMMA CompareKeepsIInv ==
  ASSUME IInv, Compare
  PROVE  IInv'
<1>1. UNCHANGED <<world, input, chunks, before, original, config, inventory, recipeDigest>>
  BY DEF Compare
<1>2. WorldTypes' /\ CopyFollows'
  BY <1>1 DEF IInv, Compare, Goto, Refused, WorldTypes, CopyFollows, world
<1>3. MemoryTypes' /\ Loops'
  BY <1>1 DEF IInv, Compare, Goto, Refused, MemoryTypes, Loops, Early, Copying, Ends
<1>4. CampaignRead'
  BY <1>1 DEF IInv, Compare, Unchanged, Goto, Refused, CampaignRead, Early, Copying, world
<1>5. PatchesFrozen' /\ EvidenceCopied'
  BY <1>1 DEF IInv, Compare, Goto, Refused, PatchesFrozen, EvidenceCopied, Early, Copying
<1>6. QED
  BY <1>2, <1>3, <1>4, <1>5 DEF IInv

-----------------------------------------------------------------------------
(* What it does when there is a run                                        *)

LEMMA FreezeCampaignKeepsIInv ==
  ASSUME IInv, FreezeCampaign
  PROVE  IInv'
<1>1. UNCHANGED <<world, original, config, inventory, recipeDigest, before, chunks>>
  BY DEF FreezeCampaign
<1>2. CASE input' = [input EXCEPT !.campaign = original] /\ Goto("patches")
  <2>1. input' \in Input /\ input'.campaign = original /\ input'.patches = input.patches
        /\ input'.recipe = input.recipe /\ input'.evidence = input.evidence
        /\ input'.manifest = input.manifest
    BY <1>2 DEF IInv, MemoryTypes, Input
  <2>2. WorldTypes' /\ MemoryTypes' /\ Loops' /\ CopyFollows'
    BY <1>1, <1>2, <2>1, IndexedPatches DEF IInv, FreezeCampaign, Goto, WorldTypes, MemoryTypes,
       Loops, CopyFollows, Early, Copying, Ends, world
  <2>3. CampaignRead' /\ PatchesFrozen' /\ EvidenceCopied'
    BY <1>1, <1>2, <2>1 DEF IInv, FreezeCampaign, Goto, CampaignRead, PatchesFrozen,
       EvidenceCopied, Early, Copying, world
  <2>4. QED
    BY <2>2, <2>3 DEF IInv
<1>3. CASE UNCHANGED input /\ Failed
  <2>1. WorldTypes' /\ MemoryTypes' /\ Loops' /\ CopyFollows'
    BY <1>1, <1>3 DEF IInv, FreezeCampaign, Goto, Failed, WorldTypes, MemoryTypes,
       Loops, CopyFollows, Early, Copying, Ends, world
  <2>2. CampaignRead' /\ PatchesFrozen' /\ EvidenceCopied'
    BY <1>1, <1>3 DEF IInv, FreezeCampaign, Goto, Failed, CampaignRead, PatchesFrozen,
       EvidenceCopied, Early, Copying, world
  <2>3. QED
    BY <2>1, <2>2 DEF IInv
<1>4. QED
  BY <1>2, <1>3 DEF FreezeCampaign


LEMMA FailingKeepsIInv ==
  ASSUME IInv, pc \in {"freeze", "patches", "manifest"} \cup Copying,
         UNCHANGED <<world, original, config, inventory, recipeDigest>>,
         Failed, chunks' \in Seq(Nat),
         \/ input' = input /\ Len(input.evidence) \in {0, Len(Evidence)}
         \/ input' = [input EXCEPT !.evidence = <<>>]
  PROVE  IInv'
<1>1. input \in Input /\ input.manifest = <<>>
  BY DEF IInv, MemoryTypes, EvidenceCopied, Copying
<1>2. input' \in Input /\ input'.manifest = <<>> /\ input'.patches = input.patches
      /\ (input'.evidence = <<>> \/ input'.evidence = input.evidence)
  BY <1>1 DEF Input
<1>3. pc' = "failed" /\ i' = 1
  BY DEF Failed, Goto
<1>4. WorldTypes' /\ CopyFollows'
  BY <1>3 DEF IInv, WorldTypes, CopyFollows, world
<1>5. MemoryTypes' /\ Loops'
  BY <1>2, <1>3 DEF IInv, MemoryTypes, Loops, Early, Copying, Ends
<1>6. CampaignRead' /\ PatchesFrozen'
  BY <1>2, <1>3 DEF IInv, CampaignRead, PatchesFrozen, Early, Copying, world
<1>7. EvidenceCopied'
  <2>1. Len(input'.evidence) \in {0, Len(Evidence)}
    BY <1>1 DEF Input
  <2>2. \A j \in 1..Len(input'.evidence) :
           input'.evidence[j].size = Len(input'.evidence[j].blocks)
    BY <1>2 DEF IInv, EvidenceCopied
  <2>3. QED
    BY <1>2, <1>3, <2>1, <2>2 DEF EvidenceCopied, Early, Copying
<1>8. QED
  BY <1>4, <1>5, <1>6, <1>7 DEF IInv

LEMMA FreezePatchKeepsIInv ==
  ASSUME IInv, FreezePatch
  PROVE  IInv'
<1>1. UNCHANGED <<world, original, config, inventory, recipeDigest, before, chunks>>
  BY DEF FreezePatch
<1>2. /\ pc = "patches" /\ i \in 1..Len(Patches) /\ Patches[i] \in PatchSet
      /\ config \in Versions /\ Len(input.patches) = i - 1 /\ input.evidence = <<>>
      /\ input.campaign = original /\ input.manifest = <<>> /\ input \in Input
  BY IndexedPatches DEF IInv, FreezePatch, Loops, PatchesFrozen, EvidenceCopied, CampaignRead,
     MemoryTypes
<1>3. CASE Failed /\ UNCHANGED input
  <2>1. chunks' \in Seq(Nat)
    BY <1>1 DEF IInv, MemoryTypes
  <2>2. QED
    BY <1>1, <1>2, <1>3, <2>1, FailingKeepsIInv
<1>4. CASE ~(Failed /\ UNCHANGED input)
  <2>1. /\ patchFile[Patches[i]] = Declares[config][Patches[i]]
        /\ patchFile[Patches[i]] \in Versions
        /\ Loop(Len(Patches), "before")
    BY <1>2, <1>4 DEF IInv, FreezePatch, StillAsDeclared, AsDeclared, WorldTypes
  <2>2. \/ i < Len(Patches) /\ i' = i + 1 /\ pc' = "patches"
        \/ i = Len(Patches) /\ i' = 1 /\ pc' = "before"
    BY <1>2, <2>1, IndexedPatches DEF Loop, Goto
  <2>3. /\ input'.patches = Append(input.patches, patchFile[Patches[i]])
        /\ input'.evidence = <<>> /\ input'.manifest = <<>> /\ input'.campaign = original
        /\ input' \in Input
        /\ input'.recipe = IF Patches[i] \in Adapted THEN recipeDigest ELSE input.recipe
    <3>1. DEFINE frozen == [input EXCEPT !.patches = Append(@, patchFile[Patches[i]])]
    <3>2. /\ frozen \in Input
          /\ frozen.patches = Append(input.patches, patchFile[Patches[i]])
          /\ frozen.evidence = <<>> /\ frozen.manifest = <<>> /\ frozen.campaign = original
          /\ frozen.recipe = input.recipe
      <4>1. Append(input.patches, patchFile[Patches[i]]) \in Seq(Versions)
        BY <1>2, <2>1 DEF Input
      <4>2. QED
        BY <1>2, <4>1 DEF Input
    <3>3. CASE Patches[i] \in Adapted
      <4>1. /\ recipe = recipeDigest
            /\ input' = [frozen EXCEPT !.recipe = IF @ = Absent THEN recipe ELSE @]
        BY <1>4, <3>3 DEF FreezePatch
      <4>2. input.recipe \in {Absent, recipeDigest} /\ recipe \in Versions
        BY <1>2 DEF IInv, PatchesFrozen, WorldTypes
      <4>3. HIDE DEF frozen
      <4>4. QED
        BY <3>2, <3>3, <4>1, <4>2 DEF Input
    <3>4. CASE Patches[i] \notin Adapted
      BY <1>4, <3>2, <3>4 DEF FreezePatch
    <3>5. QED
      BY <3>3, <3>4
  <2>4. WorldTypes' /\ CopyFollows'
    BY <1>1, <2>2 DEF IInv, WorldTypes, CopyFollows, world
  <2>5. MemoryTypes' /\ Loops' /\ CampaignRead'
    BY <1>1, <1>2, <2>2, <2>3, IndexedPatches, IndexedEvidence DEF IInv, MemoryTypes, Loops,
       CampaignRead, Early, Copying, world
  <2>6. PatchesFrozen'
    <3>1. Len(input'.patches) = i /\ input.patches \in Seq(Versions)
      BY <1>2, <2>1, <2>3 DEF Input
    <3>2. ASSUME NEW j \in 1..i
          PROVE  input'.patches[j] = Declares[config][Patches[j]]
      BY <1>2, <2>1, <2>3, <3>1, <3>2 DEF IInv, PatchesFrozen
    <3>3. input'.recipe \in {Absent, recipeDigest}
      BY <1>2, <2>3 DEF IInv, PatchesFrozen
    <3>4. ASSUME NEW j \in 1..i, Patches[j] \in Adapted
          PROVE  input'.recipe = recipeDigest
      <4>1. CASE j = i
        BY <2>3, <3>4, <4>1
      <4>2. CASE j # i
        <5>1. j \in 1..Len(input.patches)
          BY <1>2, <3>4, <4>2
        <5>2. input.recipe = recipeDigest
          BY <1>2, <3>4, <5>1 DEF IInv, PatchesFrozen
        <5>3. QED
          BY <2>3, <5>2
      <4>3. QED
        BY <4>1, <4>2
    <3>5. pc' = "patches" => Len(input'.patches) = i' - 1
      BY <1>2, <2>2, <3>1
    <3>6. pc' = "before" => Len(input'.patches) = Len(Patches)
      BY <2>2, <3>1
    <3>7. pc' \in {"patches", "before"}
      BY <2>2
    <3>8. Len(input'.patches) <= Len(Patches)
      BY <1>2, <3>1, IndexedPatches
    <3>9. QED
      BY <1>1, <3>1, <3>2, <3>3, <3>4, <3>5, <3>6, <3>7, <3>8 DEF PatchesFrozen, Early, Copying
  <2>7. EvidenceCopied'
    BY <2>2, <2>3 DEF EvidenceCopied, Early, Copying
  <2>8. QED
    BY <2>4, <2>5, <2>6, <2>7 DEF IInv
<1>5. QED
  BY <1>3, <1>4


LEMMA BeforeKeepsIInv ==
  ASSUME IInv, Before
  PROVE  IInv'
<1>1. UNCHANGED <<world, original, config, inventory, recipeDigest>>
  BY DEF Before
<1>2. pc = "before" /\ i \in 1..Len(Evidence) /\ Evidence[i] \in EvidenceSet
  BY IndexedEvidence DEF IInv, Before, Loops, Copying
<1>3. source[Evidence[i]] \in File
  BY <1>2 DEF IInv, WorldTypes
<1>4. CASE FailCapture /\ UNCHANGED <<before, chunks>>
  <2>1. chunks' \in Seq(Nat)
    BY <1>4 DEF IInv, MemoryTypes
  <2>2. QED
    BY <1>1, <1>2, <1>4, <2>1, FailingKeepsIInv DEF FailCapture, Copying
<1>5. CASE ~(FailCapture /\ UNCHANGED <<before, chunks>>)
  <2>1. /\ source[Evidence[i]].regular
        /\ before' = Identity(source[Evidence[i]]) /\ chunks' = <<>>
        /\ pc' = "copy" /\ UNCHANGED <<i, input>>
    BY <1>5 DEF Before
  <2>2. WorldTypes' /\ MemoryTypes' /\ Loops' /\ CampaignRead' /\ PatchesFrozen'
        /\ EvidenceCopied'
    BY <1>1, <1>2, <2>1 DEF IInv, WorldTypes, MemoryTypes, Loops, CampaignRead, PatchesFrozen,
       EvidenceCopied, Early, Copying, world
  <2>3. CopyFollows'
    <3>1. /\ source[Evidence[i]].stamp \in Nat /\ source[Evidence[i]].regular \in BOOLEAN
          /\ source[Evidence[i]].executable \in BOOLEAN
          /\ Len(source[Evidence[i]].blocks) \in Nat
      BY <1>3 DEF File
    <3>2. before' = <<source[Evidence[i]].stamp, source[Evidence[i]].regular,
                      source[Evidence[i]].executable, Len(source[Evidence[i]].blocks)>>
      BY <2>1 DEF Identity
    <3>3. /\ before' \in Nat \X BOOLEAN \X BOOLEAN \X Nat
          /\ before'[1] = source[Evidence[i]].stamp
          /\ before'[2] = source[Evidence[i]].regular
          /\ before'[4] = Len(source[Evidence[i]].blocks)
      BY <3>1, <3>2
    <3>4. source' = source /\ i' = i /\ chunks' = <<>> /\ pc' = "copy"
      BY <1>1, <2>1 DEF world
    <3>5. QED
      BY <2>1, <3>1, <3>3, <3>4 DEF CopyFollows
  <2>4. QED
    BY <2>2, <2>3 DEF IInv
<1>6. QED
  BY <1>4, <1>5

LEMMA CopyBlockKeepsIInv ==
  ASSUME IInv, CopyBlock
  PROVE  IInv'
<1>1. UNCHANGED <<world, i, original, config, inventory, recipeDigest, before, input>>
  BY DEF CopyBlock
<1>2. pc = "copy" /\ i \in 1..Len(Evidence) /\ Evidence[i] \in EvidenceSet
  BY IndexedEvidence DEF IInv, CopyBlock, Loops, Copying
<1>3. source[Evidence[i]] \in File
  BY <1>2 DEF IInv, WorldTypes
<1>4. chunks \in Seq(Nat) /\ source[Evidence[i]].blocks \in Seq(Nat)
  BY <1>3 DEF IInv, MemoryTypes, File
<1>5. CASE Len(chunks) < Len(source[Evidence[i]].blocks)
  <2>1. chunks' = Append(chunks, source[Evidence[i]].blocks[Len(chunks) + 1]) /\ pc' = "copy"
    BY <1>2, <1>5 DEF CopyBlock
  <2>2. source[Evidence[i]].blocks[Len(chunks) + 1] \in Nat
    BY <1>4, <1>5
  <2>3. chunks' \in Seq(Nat) /\ Len(chunks') = Len(chunks) + 1
    BY <1>4, <2>1, <2>2
  <2>4. WorldTypes' /\ MemoryTypes' /\ Loops' /\ CampaignRead' /\ PatchesFrozen'
        /\ EvidenceCopied'
    BY <1>1, <1>2, <2>1, <2>3 DEF IInv, WorldTypes, MemoryTypes, Loops, CampaignRead,
       PatchesFrozen, EvidenceCopied, Early, Copying, world
  <2>5. CopyFollows'
    <3>1. ASSUME before[1] = source[Evidence[i]].stamp
          PROVE  /\ before[2] /\ source[Evidence[i]].regular
                 /\ before[4] = Len(source[Evidence[i]].blocks)
                 /\ Len(chunks') <= Len(source[Evidence[i]].blocks)
                 /\ \A b \in 1..Len(chunks') : chunks'[b] = source[Evidence[i]].blocks[b]
      <4>1. /\ before[2] /\ source[Evidence[i]].regular
            /\ before[4] = Len(source[Evidence[i]].blocks)
            /\ \A b \in 1..Len(chunks) : chunks[b] = source[Evidence[i]].blocks[b]
        BY <1>2, <3>1 DEF IInv, CopyFollows
      <4>2. Len(chunks') <= Len(source[Evidence[i]].blocks)
        BY <1>4, <1>5, <2>3
      <4>3. ASSUME NEW b \in 1..Len(chunks')
            PROVE  chunks'[b] = source[Evidence[i]].blocks[b]
        <5>1. CASE b = Len(chunks) + 1
          BY <1>4, <2>1, <2>2, <5>1
        <5>2. CASE b # Len(chunks) + 1
          BY <1>4, <2>1, <2>2, <2>3, <4>1, <5>2
        <5>3. QED
          BY <5>1, <5>2
      <4>4. QED
        BY <4>1, <4>2, <4>3
    <3>2. QED
      BY <1>1, <1>2, <2>1, <3>1 DEF IInv, CopyFollows, world
  <2>6. QED
    BY <2>4, <2>5 DEF IInv
<1>6. CASE ~(Len(chunks) < Len(source[Evidence[i]].blocks))
  <2>1. chunks' = chunks /\ pc' = "after"
    BY <1>6 DEF CopyBlock
  <2>2. WorldTypes' /\ MemoryTypes' /\ Loops' /\ CampaignRead' /\ PatchesFrozen'
        /\ EvidenceCopied'
    BY <1>1, <1>2, <2>1 DEF IInv, WorldTypes, MemoryTypes, Loops, CampaignRead,
       PatchesFrozen, EvidenceCopied, Early, Copying, world
  <2>3. before[1] = source[Evidence[i]].stamp =>
          Len(chunks) = Len(source[Evidence[i]].blocks)
    BY <1>2, <1>4, <1>6 DEF IInv, CopyFollows
  <2>4. CopyFollows'
    BY <1>1, <1>2, <2>1, <2>3 DEF IInv, CopyFollows, world
  <2>5. QED
    BY <2>2, <2>4 DEF IInv
<1>7. QED
  BY <1>5, <1>6

(* When the second lstat agrees, the copy is the file as it is now.         *)
LEMMA CopyIsTheFile ==
  ASSUME IInv, pc = "after", SameFile(source[Evidence[i]])
  PROVE  /\ source[Evidence[i]].regular
         /\ chunks = source[Evidence[i]].blocks
         /\ before[4] = Len(chunks)
<1>1. i \in 1..Len(Evidence) /\ source[Evidence[i]] \in File
  BY IndexedEvidence DEF IInv, Loops, Copying, WorldTypes
<1>2. chunks \in Seq(Nat) /\ source[Evidence[i]].blocks \in Seq(Nat)
  BY <1>1 DEF IInv, MemoryTypes, File
<1>3. before[1] = source[Evidence[i]].stamp
  BY DEF SameFile, Identity
<1>4. /\ source[Evidence[i]].regular
      /\ before[4] = Len(source[Evidence[i]].blocks)
      /\ Len(chunks) = Len(source[Evidence[i]].blocks)
      /\ \A b \in 1..Len(chunks) : chunks[b] = source[Evidence[i]].blocks[b]
  BY <1>3 DEF IInv, CopyFollows
<1>5. chunks = source[Evidence[i]].blocks
  BY <1>2, <1>4, SeqEqual
<1>6. QED
  BY <1>4, <1>5

LEMMA AfterKeepsIInv ==
  ASSUME IInv, After
  PROVE  IInv'
<1>1. UNCHANGED <<world, original, config, inventory, recipeDigest, before, chunks>>
  BY DEF After
<1>2. pc = "after" /\ i \in 1..Len(Evidence) /\ Evidence[i] \in EvidenceSet
  BY IndexedEvidence DEF IInv, After, Loops, Copying
<1>3. CASE ~SameFile(source[Evidence[i]])
  <2>1. chunks' \in Seq(Nat) /\ FailCapture
    BY <1>1, <1>3 DEF IInv, MemoryTypes, After
  <2>2. QED
    BY <1>1, <1>2, <2>1, FailingKeepsIInv DEF FailCapture, Copying
<1>4. CASE SameFile(source[Evidence[i]])
  <2>1. before[4] = Len(chunks) /\ chunks \in Seq(Nat)
    BY <1>2, <1>4, CopyIsTheFile DEF IInv, MemoryTypes
  <2>2. input \in Input /\ Len(input.evidence) = i - 1 /\ input.manifest = <<>>
    BY <1>2 DEF IInv, MemoryTypes, EvidenceCopied, Copying
  <2>3. inventory[i] \in Entry
    BY <1>2 DEF IInv, MemoryTypes, Loops
  <2>4. DEFINE copy == [blocks |-> chunks, size |-> before[4],
                        executable |-> inventory[i].executable]
  <2>5. copy \in Copy /\ copy.size = Len(copy.blocks)
    BY <2>1, <2>3 DEF Copy, Entry
  <2>6. input' = [input EXCEPT !.evidence = Append(@, copy)]
    BY <1>4 DEF After
  <2>7. \/ i < Len(Evidence) /\ i' = i + 1 /\ pc' = "before"
        \/ i = Len(Evidence) /\ i' = 1 /\ pc' = "manifest"
    BY <1>2, <1>4, IndexedEvidence DEF After, Goto
  <2>8. HIDE DEF copy
  <2>9. input.evidence \in Seq(Copy)
    BY <2>2 DEF Input
  <2>10. /\ input'.evidence = Append(input.evidence, copy)
         /\ input'.campaign = input.campaign /\ input'.patches = input.patches
         /\ input'.recipe = input.recipe /\ input'.manifest = <<>>
    BY <2>2, <2>6 DEF Input
  <2>11. input' \in Input
    <3>1. Append(input.evidence, copy) \in Seq(Copy)
      BY <2>5, <2>9
    <3>2. QED
      BY <2>2, <2>6, <3>1 DEF Input
  <2>12. WorldTypes' /\ MemoryTypes' /\ Loops' /\ CopyFollows'
    <3>1. WorldTypes'
      BY <1>1 DEF IInv, WorldTypes, world
    <3>2. MemoryTypes'
      BY <1>1, <1>2, <2>7, <2>11 DEF IInv, MemoryTypes, Copying
    <3>3. Loops'
      BY <1>1, <1>2, <2>7 DEF IInv, Loops, Copying
    <3>4. CopyFollows'
      BY <2>7 DEF CopyFollows
    <3>5. QED
      BY <3>1, <3>2, <3>3, <3>4
  <2>13. CampaignRead' /\ PatchesFrozen'
    BY <1>1, <1>2, <2>7, <2>10 DEF IInv, CampaignRead, PatchesFrozen, Early, Copying, world
  <2>14. EvidenceCopied'
    <3>1. Len(input'.evidence) = i
      BY <1>2, <2>2, <2>5, <2>9, <2>10
    <3>2. ASSUME NEW j \in 1..i
          PROVE  input'.evidence[j].size = Len(input'.evidence[j].blocks)
      <4>1. CASE j = i
        BY <2>2, <2>5, <2>9, <2>10, <4>1
      <4>2. CASE j # i
        <5>1. input'.evidence[j] = input.evidence[j] /\ j \in 1..Len(input.evidence)
          BY <1>2, <2>2, <2>5, <2>9, <2>10, <4>2
        <5>2. QED
          BY <5>1 DEF IInv, EvidenceCopied
      <4>3. QED
        BY <4>1, <4>2
    <3>3. QED
      BY <1>2, <2>7, <2>10, <3>1, <3>2 DEF EvidenceCopied, Early, Copying
  <2>15. QED
    BY <2>12, <2>13, <2>14 DEF IInv
<1>5. QED
  BY <1>3, <1>4


LEMMA WriteManifestKeepsIInv ==
  ASSUME IInv, WriteManifest
  PROVE  IInv'
<1>1. UNCHANGED <<world, original, config, inventory, recipeDigest, before, chunks>>
  BY DEF WriteManifest
<1>2. /\ pc = "manifest" /\ input \in Input /\ Len(input.evidence) = Len(Evidence)
      /\ chunks \in Seq(Nat)
  BY DEF IInv, WriteManifest, MemoryTypes, EvidenceCopied
<1>3. CASE UNCHANGED input /\ Failed
  BY <1>1, <1>2, <1>3, FailingKeepsIInv
<1>4. CASE /\ input' = [input EXCEPT !.manifest = input.evidence]
           /\ Goto("captured") \/ Failed
  <2>1. /\ input' \in Input
        /\ input'.manifest = input.evidence /\ input'.evidence = input.evidence
        /\ input'.campaign = input.campaign /\ input'.patches = input.patches
        /\ input'.recipe = input.recipe
    BY <1>2, <1>4 DEF Input
  <2>2. pc' \in {"captured", "failed"} /\ i' = 1
    BY <1>4 DEF Failed, Goto
  <2>3. WorldTypes' /\ MemoryTypes' /\ Loops' /\ CopyFollows'
    BY <1>1, <1>2, <2>1, <2>2 DEF IInv, WorldTypes, MemoryTypes, Loops, CopyFollows, Early,
       Copying, Ends, world
  <2>4. CampaignRead' /\ PatchesFrozen'
    BY <1>1, <1>2, <2>1, <2>2 DEF IInv, CampaignRead, PatchesFrozen, Early, Copying, world
  <2>5. EvidenceCopied'
    BY <1>2, <2>1, <2>2 DEF IInv, EvidenceCopied, Early, Copying
  <2>6. QED
    BY <2>3, <2>4, <2>5 DEF IInv
<1>5. QED
  BY <1>3, <1>4 DEF WriteManifest

-----------------------------------------------------------------------------
(* The invariant                                                           *)

LEMMA InitHasIInv ==
  ASSUME Init
  PROVE  IInv
<1>1. WorldTypes
  <2>1. [b \in 1..MaxSize |-> 0] \in Seq(Nat)
    BY InputsAreGiven
  <2>2. DEFINE file == [blocks |-> [b \in 1..MaxSize |-> 0], regular |-> TRUE,
                        executable |-> FALSE, stamp |-> 0]
  <2>3. file \in File
    BY <2>1 DEF File
  <2>4. source = [e \in EvidenceSet |-> file]
    BY DEF Init
  <2>5. HIDE DEF file
  <2>6. source \in [EvidenceSet -> File]
    BY <2>3, <2>4
  <2>7. QED
    BY <2>6 DEF Init, WorldTypes
<1>2. MemoryTypes
  BY DEF Init, MemoryTypes, Input, Early
<1>3. Loops /\ CopyFollows
  BY DEF Init, Loops, CopyFollows, Copying
<1>4. CampaignRead /\ PatchesFrozen /\ EvidenceCopied
  BY DEF Init, CampaignRead, PatchesFrozen, EvidenceCopied, Early, Copying
<1>5. QED
  BY <1>1, <1>2, <1>3, <1>4 DEF IInv

LEMMA StepsKeepIInv ==
  ASSUME IInv, [Next]_vars
  PROVE  IInv'
<1>1. CASE Editor
  BY <1>1, EditsKeepIInv
<1>2. CASE Read \/ Load \/ Inventory \/ VerifyPatch \/ VerifyRecipe \/ Compare
  BY <1>2, ReadKeepsIInv, LoadKeepsIInv, InventoryKeepsIInv, VerifyKeepsIInv, CompareKeepsIInv
<1>3. CASE FreezeCampaign \/ FreezePatch \/ Before \/ CopyBlock \/ After \/ WriteManifest
  BY <1>3, FreezeCampaignKeepsIInv, FreezePatchKeepsIInv, BeforeKeepsIInv, CopyBlockKeepsIInv,
     AfterKeepsIInv, WriteManifestKeepsIInv
<1>4. CASE UNCHANGED vars
  BY <1>4 DEF vars, world, memory, IInv, WorldTypes, MemoryTypes, Loops, CampaignRead,
     PatchesFrozen, CopyFollows, EvidenceCopied
<1>5. QED
  BY <1>1, <1>2, <1>3, <1>4 DEF Next, Program

LEMMA IInvHolds == Spec => []IInv
<1>1. Init => IInv
  BY InitHasIInv
<1>2. IInv /\ [Next]_vars => IInv'
  BY StepsKeepIInv
<1>3. QED
  BY <1>1, <1>2, PTL DEF Spec

(***************************************************************************)
(* The campaign that a run keeps (orchestrator.py:1724) is the one that    *)
(* was verified, although the file is read three times, unless it was      *)
(* changed and changed back.                                               *)
(***************************************************************************)
THEOREM VerifiedCampaignIsKept == Spec => []FrozenIsVerified
<1>1. IInv => FrozenIsVerified
  BY DEF IInv, CampaignRead, FrozenIsVerified
<1>2. QED
  BY <1>1, IInvHolds, PTL

(***************************************************************************)
(* The patches that a run keeps (_read_verified_patch,                     *)
(* orchestrator.py:1920), and the recipe they were adapted with, are those *)
(* that were verified, for any number of patches and of edits.             *)
(***************************************************************************)
THEOREM VerifiedPatchesAreKept == Spec => []PatchesAreAsVerified
<1>1. IInv => PatchesAreAsVerified
  <2>1. SUFFICES ASSUME IInv, pc = "captured"
                 PROVE  PatchesAreAsVerified
    BY DEF PatchesAreAsVerified
  <2>2. /\ Len(input.patches) = Len(Patches)
        /\ \A j \in 1..Len(Patches) : input.patches[j] = Declares[config][Patches[j]]
    BY <2>1 DEF IInv, PatchesFrozen
  <2>3. DOMAIN Patches = 1..Len(Patches)
    BY InputsAreGiven
  <2>4. ASSUME Adapted # {}
        PROVE  input.recipe = recipeDigest
    <3>1. PICK p \in Adapted : p \in PatchSet
      BY <2>4, InputsAreGiven
    <3>2. PICK j \in DOMAIN Patches : Patches[j] = p
      BY <3>1 DEF PatchSet
    <3>3. j \in 1..Len(Patches)
      BY <2>3, <3>2
    <3>4. QED
      BY <2>1, <2>2, <3>1, <3>2, <3>3 DEF IInv, PatchesFrozen
  <2>5. QED
    BY <2>2, <2>3, <2>4 DEF PatchesAreAsVerified
<1>2. QED
  BY <1>1, IInvHolds, PTL

(***************************************************************************)
(* A run has all of its evidence or none when capture_evidence has ended   *)
(* (storage.py:72-75), and its manifest lists what is there.               *)
(***************************************************************************)
THEOREM EvidenceIsComplete == Spec => []EvidenceIsWholeOrGone
<1>1. IInv => EvidenceIsWholeOrGone
  <2>1. SUFFICES ASSUME IInv
                 PROVE  EvidenceIsWholeOrGone
    OBVIOUS
  <2>2. input.evidence \in Seq(Copy) /\ input.manifest \in Seq(Copy)
    BY <2>1 DEF IInv, MemoryTypes, Input
  <2>3. pc \in {"captured", "failed"} => Len(input.evidence) \in {0, Len(Evidence)}
    BY <2>1 DEF IInv, EvidenceCopied
  <2>4. pc = "captured" =>
          input.manifest = input.evidence /\ Len(input.evidence) = Len(Evidence)
    BY <2>1 DEF IInv, EvidenceCopied
  <2>5. \A j \in DOMAIN input.manifest : input.manifest[j] = input.evidence[j]
    BY <2>1, <2>2 DEF IInv, EvidenceCopied
  <2>6. \A j \in DOMAIN input.evidence : input.evidence[j].size = Len(input.evidence[j].blocks)
    BY <2>1, <2>2 DEF IInv, EvidenceCopied
  <2>7. QED
    BY <2>3, <2>4, <2>5, <2>6 DEF EvidenceIsWholeOrGone
<1>2. QED
  BY <1>1, IInvHolds, PTL


(***************************************************************************)
(* Every variable of the program has its type, and the loops of            *)
(* prepare_preflight and capture_evidence stay within their sequences.     *)
(***************************************************************************)
THEOREM CaptureTypeCorrect == Spec => []CaptureTypeOK
<1>1. IInv => CaptureTypeOK
  <2>1. SUFFICES ASSUME IInv
                 PROVE  CaptureTypeOK
    OBVIOUS
  <2>2. DOMAIN Patches = 1..Len(Patches) /\ DOMAIN Evidence = 1..Len(Evidence)
    BY InputsAreGiven
  <2>3. /\ pc \in {"verify", "patches"} => i \in DOMAIN Patches
        /\ pc \in {"inventory", "before", "copy", "after"} => i \in DOMAIN Evidence
    BY <2>1, <2>2 DEF IInv, Loops, Copying
  <2>4. ASSUME NEW j \in DOMAIN inventory
        PROVE  inventory[j].size \in Nat
    <3>1. inventory[j] \in Entry
      BY <2>1 DEF IInv, MemoryTypes
    <3>2. QED
      BY <3>1 DEF Entry
  <2>5. Len(input.patches) <= Len(Patches)
    BY <2>1 DEF IInv, PatchesFrozen
  <2>6. Len(input.evidence) <= Len(Evidence)
    BY <2>1, IndexedEvidence DEF IInv, MemoryTypes, Loops, EvidenceCopied, Early, Copying, Ends
  <2>7. {original, config, recipeDigest, input.campaign, input.recipe} \subseteq
           Versions \cup {Absent}
    BY <2>1 DEF IInv, MemoryTypes, Input
  <2>8. pc \in {"read", "load", "inventory", "verify", "recipe", "compare", "freeze", "patches",
                "before", "copy", "after", "manifest", "captured", "refused", "failed"}
    BY <2>1 DEF IInv, MemoryTypes, Early, Copying, Ends
  <2>9. QED
    BY <2>3, <2>4, <2>5, <2>6, <2>7, <2>8 DEF CaptureTypeOK
<1>2. QED
  BY <1>1, IInvHolds, PTL


-----------------------------------------------------------------------------
(* The copy implements Snapshot, but for liveness                          *)

FilesBar == [e \in EvidenceSet |-> IF source[e].regular THEN <<source[e].blocks>> ELSE <<>>]
SnapshotBar == [j \in DOMAIN input.evidence |-> <<input.evidence[j].blocks>>]
StatusBar == CASE pc = "captured" -> "whole"
               [] pc \in {"failed", "refused"} -> "given up"
               [] OTHER -> "open"

AbstractTake ==
    LET next == Len(SnapshotBar) + 1
    IN  /\ StatusBar = "open" /\ next <= Len(Evidence)
        /\ FilesBar[Evidence[next]] # <<>>
        /\ SnapshotBar' = Append(SnapshotBar, FilesBar[Evidence[next]])
        /\ UNCHANGED <<FilesBar, StatusBar>>

AbstractClose ==
    /\ StatusBar = "open"
    /\ \/ StatusBar' = "whole" /\ Len(SnapshotBar) = Len(Evidence) /\ UNCHANGED SnapshotBar
       \/ StatusBar' = "given up" /\ SnapshotBar' = <<>>
       \/ StatusBar' = "given up" /\ Len(SnapshotBar) = Len(Evidence) /\ UNCHANGED SnapshotBar
    /\ UNCHANGED FilesBar

AbstractChange == FilesBar' # FilesBar /\ UNCHANGED <<SnapshotBar, StatusBar>>

AbstractNext == AbstractChange \/ AbstractTake \/ AbstractClose

AbstractStutter == UNCHANGED <<FilesBar, SnapshotBar, StatusBar>>

LEMMA SnapshotBarLength ==
  ASSUME IInv
  PROVE  /\ SnapshotBar \in Seq({<<s>> : s \in Seq(Nat)})
         /\ Len(SnapshotBar) = Len(input.evidence)
         /\ input.evidence = <<>> => SnapshotBar = <<>>
<1>1. input.evidence \in Seq(Copy)
  BY DEF IInv, MemoryTypes, Input
<1>2. Len(input.evidence) \in Nat /\ DOMAIN input.evidence = 1..Len(input.evidence)
  BY <1>1
<1>3. ASSUME NEW j \in 1..Len(input.evidence)
      PROVE  <<input.evidence[j].blocks>> \in {<<s>> : s \in Seq(Nat)}
  <2>1. input.evidence[j] \in Copy
    BY <1>1
  <2>2. QED
    BY <2>1 DEF Copy
<1>4. SnapshotBar = [j \in 1..Len(input.evidence) |-> <<input.evidence[j].blocks>>]
  BY <1>2, Zenon DEF SnapshotBar
<1>5. SnapshotBar \in Seq({<<s>> : s \in Seq(Nat)})
  BY <1>2, <1>3, <1>4
<1>6. Len(SnapshotBar) = Len(input.evidence)
  BY <1>2, <1>4
<1>7. QED
  BY <1>5, <1>6

(* A step that leaves the copy and the state of the capture alone.          *)
LEMMA QuietSteps ==
  ASSUME UNCHANGED <<source, input>>,
         pc \notin Ends, pc' \notin Ends
  PROVE  AbstractStutter
<1>1. UNCHANGED FilesBar
  BY DEF FilesBar
<1>2. UNCHANGED SnapshotBar
  BY DEF SnapshotBar
<1>3. UNCHANGED StatusBar
  BY DEF StatusBar, Ends
<1>4. QED
  BY <1>1, <1>2, <1>3 DEF AbstractStutter

LEMMA GivingUp ==
  ASSUME IInv, UNCHANGED source, pc \notin Ends, pc' \in {"failed", "refused"},
         input'.evidence = <<>>
  PROVE  AbstractClose
<1>1. UNCHANGED FilesBar
  BY DEF FilesBar
<1>2. SnapshotBar' = <<>>
  BY DEF SnapshotBar
<1>3. StatusBar = "open" /\ StatusBar' = "given up"
  BY DEF StatusBar, Ends
<1>4. QED
  BY <1>1, <1>2, <1>3 DEF AbstractClose


LEMMA EditsMap ==
  ASSUME Editor
  PROVE  AbstractNext \/ AbstractStutter
<1>1. UNCHANGED <<pc, input>>
  BY DEF Editor, EditCampaign, EditPatchOrRecipe, EditEvidence, EditMode, Edit, memory
<1>2. UNCHANGED <<SnapshotBar, StatusBar>>
  BY <1>1 DEF SnapshotBar, StatusBar
<1>3. QED
  BY <1>2 DEF AbstractNext, AbstractChange, AbstractStutter

LEMMA PreparationsMap ==
  ASSUME IInv,
         Read \/ Load \/ Inventory \/ VerifyPatch \/ VerifyRecipe \/ Compare \/ FreezeCampaign
           \/ FreezePatch \/ Before \/ CopyBlock
  PROVE  AbstractNext \/ AbstractStutter
<1>1. UNCHANGED source /\ pc \notin Ends
  BY DEF Read, Load, Inventory, VerifyPatch, VerifyRecipe, Compare, FreezeCampaign, FreezePatch,
     Before, CopyBlock, world, Ends
<1>2. input \in Input
  BY DEF IInv, MemoryTypes
<1>3. CASE pc' \in {"failed", "refused"}
  <2>1. input'.evidence = <<>>
    <3>1. CASE Read \/ Load \/ Inventory \/ VerifyPatch \/ VerifyRecipe \/ Compare
      BY <3>1 DEF IInv, EvidenceCopied, Early, Read, Load, Inventory, VerifyPatch, VerifyRecipe,
         Compare
    <3>2. CASE FreezeCampaign
      BY <1>2, <3>2 DEF IInv, EvidenceCopied, FreezeCampaign, Input
    <3>3. CASE FreezePatch
      BY <1>3, <3>3 DEF IInv, EvidenceCopied, FreezePatch, Loop, Goto
    <3>4. CASE Before
      BY <1>2, <1>3, <3>4 DEF Before, FailCapture, Input
    <3>5. CASE CopyBlock
      BY <1>3, <3>5 DEF CopyBlock
    <3>6. QED
      BY <3>1, <3>2, <3>3, <3>4, <3>5
  <2>2. QED
    BY <1>1, <1>3, <2>1, GivingUp DEF AbstractNext
<1>4. CASE pc' \notin {"failed", "refused"}
  <2>1. pc' \notin Ends
    BY <1>4 DEF Read, Load, Inventory, VerifyPatch, VerifyRecipe, Compare, FreezeCampaign,
       FreezePatch, Before, CopyBlock, Loop, Goto, Refused, Failed, FailCapture, Ends
  <2>2. input'.evidence = input.evidence
    BY <1>2, <1>4 DEF Read, Load, Inventory, VerifyPatch, VerifyRecipe, Compare, FreezeCampaign,
       FreezePatch, Before, CopyBlock, Goto, Failed, FailCapture, Input
  <2>3. UNCHANGED FilesBar
    BY <1>1 DEF FilesBar
  <2>4. UNCHANGED SnapshotBar
    BY <2>2 DEF SnapshotBar
  <2>5. UNCHANGED StatusBar
    BY <1>1, <2>1 DEF StatusBar, Ends
  <2>6. QED
    BY <2>3, <2>4, <2>5 DEF AbstractStutter
<1>5. QED
  BY <1>3, <1>4

LEMMA AfterMaps ==
  ASSUME IInv, After
  PROVE  AbstractNext
<1>1. UNCHANGED source /\ pc = "after" /\ i \in 1..Len(Evidence)
      /\ Evidence[i] \in EvidenceSet
  BY IndexedEvidence DEF IInv, After, Loops, Copying, world
<1>2. input \in Input /\ input.evidence \in Seq(Copy) /\ Len(input.evidence) = i - 1
  BY <1>1 DEF IInv, MemoryTypes, EvidenceCopied, Copying, Input
<1>3. CASE ~SameFile(source[Evidence[i]])
  <2>1. pc' = "failed" /\ input'.evidence = <<>>
    BY <1>2, <1>3 DEF After, FailCapture, Failed, Goto, Input
  <2>2. QED
    BY <1>1, <2>1, GivingUp DEF AbstractNext, Ends
<1>4. CASE SameFile(source[Evidence[i]])
  <2>1. DEFINE copy == [blocks |-> chunks, size |-> before[4],
                        executable |-> inventory[i].executable]
  <2>2. input'.evidence = Append(input.evidence, copy) /\ copy.blocks = chunks
    BY <1>2, <1>4 DEF After, Input
  <2>3. pc' \in {"before", "manifest"}
    BY <1>1, <1>4 DEF After, Goto
  <2>4. source[Evidence[i]].regular /\ chunks = source[Evidence[i]].blocks
    BY <1>1, <1>4, CopyIsTheFile
  <2>5. UNCHANGED FilesBar /\ FilesBar[Evidence[i]] = <<chunks>>
    BY <1>1, <2>4 DEF FilesBar
  <2>6. StatusBar = "open" /\ StatusBar' = "open"
    BY <1>1, <2>3 DEF StatusBar
  <2>7. Len(SnapshotBar) + 1 = i /\ i <= Len(Evidence)
    BY <1>1, <1>2, SnapshotBarLength, IndexedEvidence
  <2>8. SnapshotBar' = Append(SnapshotBar, <<chunks>>)
    <3>1. HIDE DEF copy
    <3>2. DOMAIN input'.evidence = 1..i /\ DOMAIN input.evidence = 1..(i - 1)
      BY <1>1, <1>2, <2>2
    <3>3. /\ \A j \in 1..(i - 1) : input'.evidence[j] = input.evidence[j]
          /\ input'.evidence[i] = copy
      BY <1>1, <1>2, <2>2
    <3>4. SnapshotBar' = [j \in 1..i |-> <<input'.evidence[j].blocks>>]
      BY <3>2, Zenon DEF SnapshotBar
    <3>5. SnapshotBar = [j \in 1..(i - 1) |-> <<input.evidence[j].blocks>>]
      BY <3>2, Zenon DEF SnapshotBar
    <3>6. Append(SnapshotBar, <<chunks>>) =
            [j \in 1..i |-> IF j = i THEN <<chunks>> ELSE SnapshotBar[j]]
      <4>1. DOMAIN Append(SnapshotBar, <<chunks>>) = 1..i
        BY <1>1, <2>7, SnapshotBarLength
      <4>2. QED
        BY <1>1, <2>7, <4>1, SnapshotBarLength
    <3>7. ASSUME NEW j \in 1..i
          PROVE  <<input'.evidence[j].blocks>> = IF j = i THEN <<chunks>> ELSE SnapshotBar[j]
      <4>1. CASE j = i
        BY <2>2, <3>3, <4>1
      <4>2. CASE j # i
        <5>1. j \in 1..(i - 1)
          BY <1>1, <4>2
        <5>2. SnapshotBar[j] = <<input.evidence[j].blocks>>
          BY <3>5, <5>1
        <5>3. QED
          BY <3>3, <4>2, <5>1, <5>2
      <4>3. QED
        BY <4>1, <4>2
    <3>8. QED
      BY <3>4, <3>6, <3>7
  <2>9. <<chunks>> # <<>>
    OBVIOUS
  <2>10. AbstractTake
    BY <2>5, <2>6, <2>7, <2>8, <2>9 DEF AbstractTake
  <2>11. QED
    BY <2>10 DEF AbstractNext
<1>5. QED
  BY <1>3, <1>4


LEMMA WriteManifestMaps ==
  ASSUME IInv, WriteManifest
  PROVE  AbstractNext
<1>1. UNCHANGED source /\ pc = "manifest"
  BY DEF WriteManifest, world
<1>2. input \in Input /\ Len(input.evidence) = Len(Evidence)
  BY <1>1 DEF IInv, MemoryTypes, EvidenceCopied
<1>3. input'.evidence = input.evidence
  BY <1>2 DEF WriteManifest, Input
<1>4. UNCHANGED <<FilesBar, SnapshotBar>>
  BY <1>1, <1>3 DEF FilesBar, SnapshotBar
<1>5. pc' \in {"captured", "failed"}
  BY DEF WriteManifest, Goto, Failed
<1>6. StatusBar = "open" /\ StatusBar' \in {"whole", "given up"}
  BY <1>1, <1>5 DEF StatusBar
<1>7. Len(SnapshotBar) = Len(Evidence)
  BY <1>2, SnapshotBarLength
<1>8. QED
  BY <1>4, <1>6, <1>7 DEF AbstractNext, AbstractClose

LEMMA StepsMap ==
  ASSUME IInv, [Next]_vars
  PROVE  AbstractNext \/ AbstractStutter
<1>1. CASE UNCHANGED vars
  BY <1>1 DEF vars, world, memory, AbstractStutter, FilesBar, SnapshotBar, StatusBar
<1>2. CASE Editor
  BY <1>2, EditsMap
<1>3. CASE Program
  BY <1>3, PreparationsMap, AfterMaps, WriteManifestMaps DEF Program
<1>4. QED
  BY <1>1, <1>2, <1>3 DEF Next

(***************************************************************************)
(* The copy of capture_evidence (storage.py:41-75, 111-120) implements     *)
(* Snapshot: each file is taken as it was at one moment, and the files are *)
(* given up all or none.  That it ends is left to the model checker.       *)
(***************************************************************************)
THEOREM CopyIsASnapshot == Spec => Promise!Init /\ [][Promise!Next]_(Promise!vars)
<1>1. Init => Promise!Init
  <2>1. SUFFICES ASSUME Init
                 PROVE  Promise!Init
    OBVIOUS
  <2>2. IInv /\ input.evidence = <<>> /\ pc = "read"
    BY <2>1, InitHasIInv DEF Init
  <2>3. SnapshotBar = <<>> /\ StatusBar = "open"
    BY <2>2, SnapshotBarLength DEF StatusBar
  <2>4. QED
    BY <2>3 DEF Promise!Init, SnapshotBar, StatusBar
<1>2. IInv /\ [Next]_vars => [Promise!Next]_(Promise!vars)
  <2>1. SUFFICES ASSUME IInv, [Next]_vars
                 PROVE  [Promise!Next]_(Promise!vars)
    OBVIOUS
  <2>2. CASE AbstractNext
    BY <2>2 DEF AbstractNext, AbstractChange, AbstractTake, AbstractClose, FilesBar, SnapshotBar,
       StatusBar, Promise!Next, Promise!Change, Promise!Take, Promise!Close, Promise!Special
  <2>3. CASE AbstractStutter
    BY <2>3 DEF AbstractStutter, FilesBar, SnapshotBar, StatusBar, Promise!vars
  <2>4. QED
    BY <2>1, <2>2, <2>3, StepsMap
<1>3. QED
  BY <1>1, <1>2, IInvHolds, PTL DEF Spec
=============================================================================
