\* Every failure of commands, oracles, scanners, git and cleanup, and links left by commands; the
\* run store can be written.
CONSTANTS
    ConfigUnits <- MCUnits
    Order <- MCOrder
    Patches <- MCPatches
    Vulns <- MCVulns
    UnitRegs <- MCUnitRegs
    SharedRegs <- MCSharedRegs
    Scans <- MCScans
    Rules = {x}
    MaxRank = 2
    Threshold = 2
    KeepFailedWorkspaces = FALSE
    CleanupMayFail = TRUE
    Ends = {"zero", "nonzero", "timeout", "launch", "uncertain", "escape"}
    Effects = {"none", "generated", "edited", "deleted"}
    Leavings = {"link"}
    MaxStoreFaults = 0
SPECIFICATION Spec
INVARIANTS
    TypeOK
    ChecksRunOnTheRightTree
    OverlapIsCheckedFirst
    CombinedIsComposed
    NoNewSevereFinding
    FailureIsRecorded
PROPERTIES
    KeepsPromise
