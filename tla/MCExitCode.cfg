\* The exit code of campaigns that have executed commands.
CONSTANTS
    ConfigUnits <- MCUnits
    Order <- MCOrder
    Patches <- MCPatches
    Vulns <- MCVulns
    UnitRegs <- MCUnitRegs
    SharedRegs <- MCSharedRegs
    Scans <- MCScans
    Rules = {x}
    MaxRank = 2
    Threshold = 2
    KeepFailedWorkspaces = FALSE
    CleanupMayFail = TRUE
    Ends = {"zero", "nonzero", "timeout", "launch", "uncertain", "escape"}
    Effects = {"none", "generated", "edited", "deleted"}
    Leavings = {}
    MaxStoreFaults = 0
SPECIFICATION Spec
INVARIANT
    ConfigurationErrorsPrecedeExecution
