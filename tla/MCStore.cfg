\* Any two writes or removals in the run store fail, and failed workspaces are kept.
CONSTANTS
    ConfigUnits <- MCUnits
    Order <- MCOrder
    Patches <- MCPatches
    Vulns <- MCVulns
    UnitRegs <- MCUnitRegs
    SharedRegs <- MCSharedRegs
    Scans <- MCScans
    Rules = {x}
    MaxRank = 1
    Threshold = 1
    KeepFailedWorkspaces = TRUE
    CleanupMayFail = TRUE
    Ends = {"zero", "nonzero"}
    Effects = {"none", "deleted"}
    Leavings = {}
    MaxStoreFaults = 2
SPECIFICATION Spec
INVARIANTS
    AcceptanceIsEarned
    SuccessIsSealed
    EvidenceIsRefusedForCause
    LeftVerdictIsContradicted
    WorktreesAreReclaimed
PROPERTIES
    AdvancesAreLegal
    FailureIsFinal
