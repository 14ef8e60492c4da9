\* A write that fails after the state accepted was persisted.
CONSTANTS
    ConfigUnits <- MCUnits
    Order <- MCOrder
    Patches <- MCPatches
    Vulns <- MCVulns
    UnitRegs <- MCUnitRegs
    SharedRegs <- MCSharedRegs
    Scans <- MCScans
    Rules = {x}
    MaxRank = 1
    Threshold = 1
    KeepFailedWorkspaces = TRUE
    CleanupMayFail = TRUE
    Ends = {"zero", "nonzero"}
    Effects = {"none", "deleted"}
    Leavings = {}
    MaxStoreFaults = 1
SPECIFICATION Spec
PROPERTY
    TerminalStatesNeverTransition
