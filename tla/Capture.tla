------------------------------ MODULE Capture ------------------------------
(***************************************************************************)
(* The inputs of a campaign are verified (verify_campaign) and then        *)
(* captured (prepare_preflight, capture_evidence), while somebody edits    *)
(* them.  The campaign file, a patch and the recipe are read at once and   *)
(* are known by the number of their version; evidence is copied block by   *)
(* block.  A digest is what it is a digest of.                             *)
(***************************************************************************)
EXTENDS Integers, Sequences

CONSTANTS
    Patches,            \* the patches, in the order of the campaign
    Adapted,            \* those that are to be adapted with Goose
    Evidence,           \* the declared evidence files, in the order of their paths
    Versions,           \* the versions that a file may have
    Declares,           \* the digest that a version of the campaign declares for a patch
    MaxSize,            \* bound on the blocks of an evidence file
    MaxEdits            \* bound on the edits

PatchSet == {Patches[k] : k \in DOMAIN Patches}
EvidenceSet == {Evidence[k] : k \in DOMAIN Evidence}

ASSUME InputsAreGiven ==
    /\ Patches \in Seq(PatchSet) /\ Len(Patches) > 0
    /\ Evidence \in Seq(EvidenceSet) /\ Len(Evidence) > 0
    /\ Adapted \subseteq PatchSet
    /\ Declares \in [Versions -> [PatchSet -> Versions]]
    /\ MaxSize \in Nat /\ MaxEdits \in Nat

VARIABLES
    campaign, patchFile, recipe,    \* the files, each the version it has now
    source,                         \* an evidence file: its blocks, mode and identity
    edits,                          \* how many edits there were
    went,                           \* history: the versions that the campaign file has had
    reverted                        \* history: has it gone back to one of them?

world == <<campaign, patchFile, recipe, source, edits, went, reverted>>

VARIABLES
    pc,                             \* where the program is
    i,                              \* the index of its loop
    original,                       \* original_campaign
    config,                         \* the version of the campaign that was verified
    inventory,                      \* size and executable of the EvidenceFiles
    recipeDigest,                   \* goose_recipe_sha256
    before, chunks                  \* capture_evidence: the lstat before, what has been copied

memory == <<pc, i, original, config, inventory, recipeDigest, before, chunks>>

VARIABLES
    input                           \* the run's input directory

vars == <<world, memory, input>>

Absent == "absent"

Init ==
    /\ campaign \in Versions /\ patchFile \in [PatchSet -> Versions] /\ recipe \in Versions
    /\ source = [e \in EvidenceSet |-> [blocks |-> [b \in 1..MaxSize |-> 0],
                                        regular |-> TRUE, executable |-> FALSE, stamp |-> 0]]
    /\ edits = 0
    /\ went = {campaign} /\ reverted = FALSE
    /\ pc = "read" /\ i = 1
    /\ original = Absent /\ config = Absent /\ recipeDigest = Absent
    /\ inventory = <<>> /\ before = <<>> /\ chunks = <<>>
    /\ input = [campaign |-> Absent, patches |-> <<>>, recipe |-> Absent,
                evidence |-> <<>>, manifest |-> <<>>]

-----------------------------------------------------------------------------
(* Somebody edits the files.                                               *)

Edit ==
    /\ edits < MaxEdits
    /\ edits' = edits + 1
    /\ UNCHANGED <<memory, input>>

EditCampaign ==
    /\ Edit
    /\ campaign' \in Versions \ {campaign}
    /\ went' = went \cup {campaign'}
    /\ reverted' = (reverted \/ campaign' \in went)
    /\ UNCHANGED <<patchFile, recipe, source>>

EditPatchOrRecipe ==
    /\ Edit
    /\ \/ /\ \E p \in PatchSet, v \in Versions : patchFile' = [patchFile EXCEPT ![p] = v]
          /\ UNCHANGED recipe
       \/ recipe' \in Versions /\ UNCHANGED patchFile
    /\ UNCHANGED <<campaign, source, went, reverted>>

\* A write in place, a truncation, or another file in its place, a link among them: the blocks
\* change, and with them the inode or the time of the modification, which no writer sets back.
EditEvidence ==
    /\ Edit
    /\ \E e \in EvidenceSet, regular \in BOOLEAN :
         \E size \in 0..MaxSize :
           \E blocks \in [1..size -> {0, edits'}] :
             source' = [source EXCEPT ![e] = [blocks |-> blocks, regular |-> regular,
                                              executable |-> @.executable, stamp |-> @.stamp + 1]]
    /\ UNCHANGED <<campaign, patchFile, recipe, went, reverted>>

\* chmod: the time of the modification does not change.
EditMode ==
    /\ Edit
    /\ \E e \in EvidenceSet : source' = [source EXCEPT ![e].executable = ~@]
    /\ UNCHANGED <<campaign, patchFile, recipe, went, reverted>>

Editor == EditCampaign \/ EditPatchOrRecipe \/ EditEvidence \/ EditMode

-----------------------------------------------------------------------------
(* The program.                                                            *)

Goto(next) == pc' = next /\ i' = 1

(* A mutant: the loop goes one item too far. *)
LoopOneMore(n, next) == IF i <= n THEN i' = i + 1 /\ UNCHANGED pc ELSE Goto(next)

\* The loop goes on to its next item, or the program to its next part.
Loop(n, next) == IF i < n THEN i' = i + 1 /\ UNCHANGED pc ELSE Goto(next)

\* A ConfigurationError before there is a run, or a failure of the run.
Refused == Goto("refused")
Failed == Goto("failed")

Read ==
    /\ pc = "read"
    /\ original' = campaign
    /\ Goto("load")
    /\ UNCHANGED <<world, config, inventory, recipeDigest, before, chunks, input>>

\* load_campaign, which may find the campaign invalid.
Load ==
    /\ pc = "load"
    /\ config' = campaign
    /\ Goto("inventory") \/ Refused
    /\ UNCHANGED <<world, original, inventory, recipeDigest, before, chunks, input>>

\* inventory_evidence, file by file: a link or a special file is refused.
Inventory ==
    LET file == source[Evidence[i]]
    IN  /\ pc = "inventory"
        /\ \/ /\ file.regular
              /\ inventory' = Append(inventory, [size |-> Len(file.blocks),
                                                 executable |-> file.executable])
              /\ Loop(Len(Evidence), "verify")
           \/ ~file.regular /\ Refused /\ UNCHANGED inventory
        /\ UNCHANGED <<world, original, config, recipeDigest, before, chunks, input>>

\* A patch is what the campaign says when it is verified.
AsDeclared(p) == patchFile[p] = Declares[config][p]

VerifyPatch ==
    /\ pc = "verify"
    /\ IF AsDeclared(Patches[i]) THEN Loop(Len(Patches), "recipe") ELSE Refused
    /\ UNCHANGED <<world, original, config, inventory, recipeDigest, before, chunks, input>>

VerifyRecipe ==
    /\ pc = "recipe"
    /\ recipeDigest' = recipe
    /\ Goto("compare") \/ Refused
    /\ UNCHANGED <<world, original, config, inventory, before, chunks, input>>

(* A mutant: the campaign is not read again. *)
NotReadAgain == TRUE

Unchanged == campaign = original

Compare ==
    /\ pc = "compare"
    /\ IF Unchanged THEN Goto("freeze") ELSE Refused
    /\ UNCHANGED <<world, original, config, inventory, recipeDigest, before, chunks, input>>

\* The run is created and the host is qualified, or not.
FreezeCampaign ==
    /\ pc = "freeze"
    /\ \/ input' = [input EXCEPT !.campaign = original] /\ Goto("patches")
       \/ UNCHANGED input /\ Failed
    /\ UNCHANGED <<world, original, config, inventory, recipeDigest, before, chunks>>

(* A mutant: the patch is read again but not hashed again. *)
ReadOnly(p) == TRUE

\* _read_verified_patch
StillAsDeclared(p) == AsDeclared(p)

\* _capture_patches, _read_verified_patch and _capture_adaptation: the recipe is frozen with the
\* first patch that is adapted, and Goose or the checks of its patch may fail.
FreezePatch ==
    LET patch == Patches[i]
        frozen == [input EXCEPT !.patches = Append(@, patchFile[patch])]
    IN  /\ pc = "patches"
        /\ \/ /\ StillAsDeclared(patch)
              /\ IF patch \in Adapted
                 THEN /\ recipe = recipeDigest
                      /\ input' = [frozen EXCEPT !.recipe = IF @ = Absent THEN recipe ELSE @]
                 ELSE input' = frozen
              /\ Loop(Len(Patches), "before")
           \/ Failed /\ UNCHANGED input
        /\ UNCHANGED <<world, original, config, inventory, recipeDigest, before, chunks>>

Identity(file) == <<file.stamp, file.regular, file.executable, Len(file.blocks)>>

(* A mutant: what has been copied stays. *)
KeepPartial == UNCHANGED input /\ Failed

(* The except clause of capture_evidence, and of prepare_preflight.  The   *)
(* removal of the copies ignores errors; here it meets none.               *)
FailCapture == input' = [input EXCEPT !.evidence = <<>>] /\ Failed

\* The file has to be there as it was inventoried, at least in its size.
Before ==
    LET file == source[Evidence[i]]
    IN  /\ pc = "before"
        /\ \/ /\ file.regular /\ Len(file.blocks) = inventory[i].size
              /\ before' = Identity(file) /\ chunks' = <<>>
              /\ pc' = "copy" /\ UNCHANGED <<i, input>>
           \/ FailCapture /\ UNCHANGED <<before, chunks>>
        /\ UNCHANGED <<world, original, config, inventory, recipeDigest>>

\* Block by block, to the end of the file as it is then.
CopyBlock ==
    LET blocks == source[Evidence[i]].blocks
    IN  /\ pc = "copy"
        /\ IF Len(chunks) < Len(blocks)
           THEN chunks' = Append(chunks, blocks[Len(chunks) + 1]) /\ UNCHANGED pc
           ELSE pc' = "after" /\ UNCHANGED chunks
        /\ UNCHANGED <<world, i, original, config, inventory, recipeDigest, before, input>>

(* A mutant: only the size is compared. *)
SameSize(file) == before[4] = Len(file.blocks)

SameFile(file) == Identity(file) = before

\* The second lstat; the copy gets the mode of the inventory.
After ==
    LET copy == [blocks |-> chunks, size |-> before[4], executable |-> inventory[i].executable]
    IN  /\ pc = "after"
        /\ IF SameFile(source[Evidence[i]])
           THEN /\ input' = [input EXCEPT !.evidence = Append(@, copy)]
                /\ IF i < Len(Evidence)
                   THEN i' = i + 1 /\ pc' = "before"
                   ELSE Goto("manifest")
           ELSE FailCapture
        /\ UNCHANGED <<world, original, config, inventory, recipeDigest, before, chunks>>

\* The manifest, patches.yaml, and the modes; the manifest may be there when a later one fails.
WriteManifest ==
    /\ pc = "manifest"
    /\ \/ input' = [input EXCEPT !.manifest = input.evidence] /\ (Goto("captured") \/ Failed)
       \/ UNCHANGED input /\ Failed
    /\ UNCHANGED <<world, original, config, inventory, recipeDigest, before, chunks>>

Program ==
    \/ Read \/ Load \/ Inventory \/ VerifyPatch \/ VerifyRecipe \/ Compare
    \/ FreezeCampaign \/ FreezePatch \/ Before \/ CopyBlock \/ After \/ WriteManifest

Next == Editor \/ Program

Spec == Init /\ [][Next]_vars /\ WF_vars(Program)
-----------------------------------------------------------------------------
(* Properties.                                                             *)

\* Every variable of the program has its type, and the loops stay within their sequences
\* (orchestrator.py:1717-1785, storage.py:29-75).
CaptureTypeOK ==
    /\ pc \in {"read", "load", "inventory", "verify", "recipe", "compare", "freeze", "patches",
               "before", "copy", "after", "manifest", "captured", "refused", "failed"}
    /\ {original, config, recipeDigest, input.campaign, input.recipe} \subseteq Versions \cup {Absent}
    /\ pc \in {"verify", "patches"} => i \in DOMAIN Patches
    /\ pc \in {"inventory", "before", "copy", "after"} => i \in DOMAIN Evidence
    /\ \A j \in DOMAIN inventory : inventory[j].size \in Nat
    /\ Len(input.patches) <= Len(Patches) /\ Len(input.evidence) <= Len(Evidence)

\* The campaign that a run keeps is the one that was verified, although it is read three times,
\* unless the file was changed and changed back meanwhile (orchestrator.py:1719-1722).
FrozenIsVerified == pc = "captured" /\ ~reverted => input.campaign = config

\* What is executed is what was verified: every frozen patch is what the verified campaign
\* declares, however often its file has changed in between, and so is the recipe that patches
\* were adapted with (orchestrator.py:1810, 1851-1859, 1920-1927).
PatchesAreAsVerified ==
    pc = "captured" =>
        /\ Len(input.patches) = Len(Patches)
        /\ \A j \in DOMAIN Patches : input.patches[j] = Declares[config][Patches[j]]
        /\ Adapted # {} => input.recipe = recipeDigest

\* A run has all of its evidence or none when its capture has ended, and a manifest only of what
\* is there and with the size it has there (storage.py:64, 72-75, orchestrator.py:1749-1750).
EvidenceIsWholeOrGone ==
    /\ pc \in {"captured", "failed"} => Len(input.evidence) \in {0, Len(Evidence)}
    /\ pc = "captured" => input.manifest = input.evidence /\ Len(input.evidence) = Len(Evidence)
    /\ \A j \in DOMAIN input.manifest : input.manifest[j] = input.evidence[j]
    /\ \A j \in DOMAIN input.evidence : input.evidence[j].size = Len(input.evidence[j].blocks)

Promise == INSTANCE Snapshot WITH
    files <- [e \in EvidenceSet |->
                IF source[e].regular THEN <<source[e].blocks>> ELSE <<>>],
    snapshot <- [j \in DOMAIN input.evidence |-> <<input.evidence[j].blocks>>],
    status <- CASE pc = "captured" -> "whole"
                [] pc \in {"failed", "refused"} -> "given up"
                [] OTHER -> "open"

\* The copy of the evidence implements Snapshot: although a file is copied block by block between
\* two lstats while it may change, the copy is the file at one moment, and the capture ends
\* (storage.py:41-75, 111-120).
KeepsSnapshot == Promise!Spec
=============================================================================
