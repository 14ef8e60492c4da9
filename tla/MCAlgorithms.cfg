\* The pure parts of the program on all inputs within the bounds.
INIT Init
NEXT Next
CONSTANTS
    MaxFindings = 3
    LastLine = 2
    MaxBody = 2
    MaxComponents = 3
INVARIANTS
    NormalisationKeepsTheWorst
    ComparisonMissesNothing
    ParsedOrRefused
    DiffsApplyWhereTheySay
    MovedDiffsApply
    PatternsAreOfComponents
    GeneratedAreSeparate
    AcceptedIsRunnable
    EvidenceIsKeptApart
