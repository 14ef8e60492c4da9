\* Two edits are enough to change a file and to change it back, or to change it and to change
\* another one; files have at most two blocks.
CONSTANTS
    Patches <- MCPatches
    Adapted = {"p2"}
    Evidence <- MCEvidence
    Versions = {"v1", "v2"}
    Declares <- MCDeclares
    MaxSize = 2
    MaxEdits = 2
SPECIFICATION Spec
INVARIANTS
    CaptureTypeOK
    FrozenIsVerified
    PatchesAreAsVerified
    EvidenceIsWholeOrGone
PROPERTIES
    KeepsSnapshot
CHECK_DEADLOCK FALSE
