\* Commands and evidence whose files look like the records of checks.
CONSTANTS
    ConfigUnits <- MCUnits
    Order <- MCOrder
    Patches <- MCPatches
    Vulns <- MCVulns
    UnitRegs <- MCUnitRegs
    SharedRegs <- MCSharedRegs
    Scans <- MCScans
    Rules = {x}
    MaxRank = 1
    Threshold = 1
    KeepFailedWorkspaces = FALSE
    CleanupMayFail = FALSE
    Ends = {"zero", "nonzero"}
    Effects = {"none"}
    Leavings = {"record"}
    MaxStoreFaults = 0
SPECIFICATION Spec
INVARIANT
    PassingCampaignIsAccepted
